---- MODULE Spec2Model ----
(***************************************************************************)
(* Model of the coordination registry of sia:                              *)
(*   src/backend/registry/work_unit_registry.py  (WorkUnitRegistry)        *)
(*   src/backend/models/work_unit.py             (WorkUnit, QueueEntry)    *)
(*   src/backend/models/agent.py                 (AgentInfo)               *)
(*   src/backend/main.py                         (periodic_cleanup)        *)
(*                                                                         *)
(* Every public operation of the registry runs under one RLock.  Most      *)
(* specifications below take each operation as one atomic action; the      *)
(* specification SpecThreads has the request handlers and the reaper as     *)
(* threads that take and give back the lock, and checks them against the   *)
(* atomic operations.                                                      *)
(*                                                                         *)
(* Encodings.                                                              *)
(*  - An Optional value is a sequence of length at most one: None is <<>>  *)
(*    and a present value x is <<x>>.                                      *)
(*  - A Python dict is the sequence of its values in insertion order (the  *)
(*    order in which the code iterates it); the key is a field of the      *)
(*    value (agent_id, path).                                              *)
(*  - An agent id is the sequence of its ':'-separated parts, so that      *)
(*    "s1:t1" is <<"s1", "t1">>; str.split(":") and f"{a}:{b}" are then    *)
(*    operations on sequences.                                             *)
(*  - A datetime is stored as its distance in seconds from the current     *)
(*    time: datetime.utcnow() is 0, a time d seconds ago is -d, a time d   *)
(*    seconds ahead is d.  The passing of one second (Tick) lowers every   *)
(*    stored datetime by one, down to a floor below which the code cannot  *)
(*    tell two datetimes apart: an agent is expired from AgentTtl + 1      *)
(*    seconds of silence on, a work unit is expired once expires_at is in  *)
(*    the past, and claimed_at is written but never compared.              *)
(*  - A queue entry is its agent_id (requested_at is written once and      *)
(*    never read by the registry); WorkUnit.id and                         *)
(*    AgentInfo.registered_at are likewise left out.                       *)
(***************************************************************************)
EXTENDS Integers, Sequences, FiniteSets, TLC

VARIABLES
    agents,       \* WorkUnitRegistry._agents: dict agent_id -> AgentInfo
    work_units,   \* WorkUnitRegistry._work_units: dict path -> WorkUnit
    events,       \* what _emit was called with during the last operation
    last,         \* the last operation: its name, arguments and return value
    lock,         \* WorkUnitRegistry._lock: the thread that holds it, if any
    calls,        \* per thread, the call it is in and how far it has got
    delivered,    \* per sink, the events it was called with during the last operation
    server        \* main.py: where lifespan and the cleanup task are

vars == <<agents, work_units, events, last, lock, calls, delivered, server>>

\* an operation taken as one step: no thread is inside a call, the sinks are
\* not looked at, and lifespan and the cleanup task stay where they are
Atomic == UNCHANGED <<lock, calls, delivered, server>>

-----------------------------------------------------------------------------
(* Bounds and scaled constants *)

\* WorkUnitRegistry(default_ttl_seconds=300), scaled to the clock of the model
DefaultTtl == 1

\* AgentInfo.ttl_seconds = 600, scaled likewise
AgentTtl == 0

\* the oldest last_seen the model tells apart: the agent is expired from there on
OldestSeen == 0 - (AgentTtl + 1)

\* the oldest claimed_at and expires_at the model tells apart: "in the past"
Past == 0 - 1

None == <<>>

\* the element of a one-element set; The({e(r) : r \in {x}}) is e(x) with
\* x computed once, as a local variable holding the result of a call
The(S) == CHOOSE y \in S : TRUE

Some(x) == <<x>>

\* datetime.utcnow(), in the relative encoding
Now == 0

AgentIds == {<<"s1">>, <<"s2">>, <<"s1", "t1">>}

\* the two agents of the two-path specification
TwoAgents == {<<"s1">>, <<"s2">>}

Paths == {"/p", "proc:test"}

\* the path of the one-path specification
OnePath == {"/p"}

\* WorkUnitType, as far as the one-path and two-path specifications claim it
WorkUnitTypes == {"file"}

\* WorkUnitType
AllWorkUnitTypes == {"file", "directory", "process"}

\* the ttl_seconds argument of claim: absent or zero, both of which select the default
TtlInputs == {None, Some(0)}

\* the ttl_seconds argument of claim: also a ttl that differs from the default
AllTtlInputs == {None, Some(0), Some(DefaultTtl + 1)}

-----------------------------------------------------------------------------
(* Entity model *)

\* AgentInfo(agent_id=..., session_id=...) with the dataclass defaults
AgentInfo(agent_id, session_id) ==
    [agent_id |-> agent_id,
     session_id |-> session_id,
     agent_type |-> "main",
     task_tool_use_id |-> None,
     parent_agent_id |-> None,
     last_seen |-> Now,
     ttl_seconds |-> AgentTtl]

create_main_agent(session_id) == AgentInfo(session_id, session_id)

create_subagent(session_id, task_tool_use_id, parent_agent_id) ==
    [AgentInfo(session_id \o <<task_tool_use_id>>, session_id) EXCEPT
        !.agent_type = "subagent",
        !.task_tool_use_id = Some(task_tool_use_id),
        !.parent_agent_id = Some(parent_agent_id)]

\* AgentInfo.is_expired: (utcnow() - last_seen).total_seconds() > ttl_seconds
is_expired(agent) == (Now - agent.last_seen) > agent.ttl_seconds

\* AgentInfo.update_last_seen
update_last_seen(agent) == [agent EXCEPT !.last_seen = Now]

\* a membership test that never finds the agent
is_in_queue_never(wu, agent_id) == FALSE

\* WorkUnit.is_in_queue
is_in_queue(wu, agent_id) == \E i \in 1..Len(wu.queue) : wu.queue[i] = agent_id

\* WorkUnit.queue_position: 1-indexed position of the first match, or None
queue_position(wu, agent_id) ==
    IF is_in_queue(wu, agent_id)
    THEN Some(CHOOSE i \in 1..Len(wu.queue) :
            /\ wu.queue[i] = agent_id
            /\ \A j \in 1..(i - 1) : wu.queue[j] # agent_id)
    ELSE None

-----------------------------------------------------------------------------
(* Dict access *)

\* index of the entry with this agent_id in _agents, 0 when absent
AgentIndex(ags, agent_id) ==
    IF \E i \in 1..Len(ags) : ags[i].agent_id = agent_id
    THEN CHOOSE i \in 1..Len(ags) : ags[i].agent_id = agent_id
    ELSE 0

\* index of the entry with this path in _work_units, 0 when absent
WuIndex(wus, path) ==
    IF \E i \in 1..Len(wus) : wus[i].path = path
    THEN CHOOSE i \in 1..Len(wus) : wus[i].path = path
    ELSE 0

\* [e for e in queue if e.agent_id != agent_id]
RECURSIVE QueueWithout(_, _)
QueueWithout(queue, agent_id) ==
    IF queue = <<>> THEN <<>>
    ELSE IF Head(queue) = agent_id THEN QueueWithout(Tail(queue), agent_id)
    ELSE <<Head(queue)>> \o QueueWithout(Tail(queue), agent_id)

\* del d[key] for a dict kept as a sequence
RECURSIVE AgentsWithout(_, _)
AgentsWithout(ags, agent_id) ==
    IF ags = <<>> THEN <<>>
    ELSE IF Head(ags).agent_id = agent_id THEN AgentsWithout(Tail(ags), agent_id)
    ELSE <<Head(ags)>> \o AgentsWithout(Tail(ags), agent_id)

-----------------------------------------------------------------------------
(* Registry operations, as functions from the state to the new state.      *)
(* Each returns a record with the new dicts, the events emitted in order   *)
(* and the return value.                                                    *)

\* ttl = ttl_seconds or self._default_ttl
EffectiveTtl(ttl_seconds) ==
    IF ttl_seconds = None \/ ttl_seconds = Some(0) THEN DefaultTtl ELSE ttl_seconds[1]

\* a promotion that takes the last entry of the queue (pop() for pop(0))
Promote_last_entry(wu) ==
    LET next_entry == wu.queue[Len(wu.queue)] IN
    [wu EXCEPT !.queue = SubSeq(wu.queue, 1, Len(wu.queue) - 1),
               !.owner_agent_id = Some(next_entry),
               !.claimed_at = Some(Now),
               !.expires_at = Some(Now + wu.ttl_seconds)]

\* a promotion that leaves claimed_at as the former owner set it
Promote_keeps_claimed_at(wu) ==
    LET next_entry == Head(wu.queue) IN
    [wu EXCEPT !.queue = Tail(wu.queue),
               !.owner_agent_id = Some(next_entry),
               !.expires_at = Some(Now + wu.ttl_seconds)]

\* _release_internal, the branch "if wu.queue": promote the next in the queue
Promote(wu) ==
    LET next_entry == Head(wu.queue) IN
    [wu EXCEPT !.queue = Tail(wu.queue),
               !.owner_agent_id = Some(next_entry),
               !.claimed_at = Some(Now),
               !.expires_at = Some(Now + wu.ttl_seconds)]

\* a release that forgets to clear expires_at
MakeAvailable_keeps_expiry(wu) ==
    [wu EXCEPT !.owner_agent_id = None,
               !.claimed_at = None,
               !.status = "available"]

\* _release_internal, the branch "else": no one waiting - mark as available
MakeAvailable(wu) ==
    [wu EXCEPT !.owner_agent_id = None,
               !.claimed_at = None,
               !.expires_at = None,
               !.status = "available"]

\* a release without the ownership check
release_internal_any_agent(wus, agent_id, path) ==
    LET i == WuIndex(wus, path) IN
    IF i = 0 THEN [work_units |-> wus, events |-> <<>>, ret |-> FALSE]
    ELSE
    LET wu == wus[i] IN
    IF wu.owner_agent_id = None
    THEN [work_units |-> wus, events |-> <<>>, ret |-> FALSE]
    ELSE IF wu.queue # <<>>
    THEN [work_units |-> [wus EXCEPT ![i] = Promote(wu)],
          events |-> <<[name |-> "work_unit_transferred",
                        path |-> path, new_owner |-> Promote(wu).owner_agent_id[1]]>>,
          ret |-> TRUE]
    ELSE [work_units |-> [wus EXCEPT ![i] = MakeAvailable(wu)],
          events |-> <<[name |-> "work_unit_released", path |-> path]>>,
          ret |-> TRUE]

\* WorkUnitRegistry._release_internal
release_internal(wus, agent_id, path) ==
    LET i == WuIndex(wus, path) IN
    IF i = 0 THEN [work_units |-> wus, events |-> <<>>, ret |-> FALSE]
    ELSE
    LET wu == wus[i] IN
    IF wu.owner_agent_id # Some(agent_id)
    THEN [work_units |-> wus, events |-> <<>>, ret |-> FALSE]
    ELSE IF wu.queue # <<>>
    THEN [work_units |-> [wus EXCEPT ![i] = Promote(wu)],
          events |-> <<[name |-> "work_unit_transferred",
                        path |-> path, new_owner |-> Promote(wu).owner_agent_id[1]]>>,
          ret |-> TRUE]
    ELSE [work_units |-> [wus EXCEPT ![i] = MakeAvailable(wu)],
          events |-> <<[name |-> "work_unit_released", path |-> path]>>,
          ret |-> TRUE]

\* a registration that announces a re-registration as well
register_agent_announces_again(ags, agent) ==
    LET i == AgentIndex(ags, agent.agent_id) IN
    IF i # 0
    THEN [agents |-> [ags EXCEPT ![i] = update_last_seen(ags[i])],
          events |-> <<[name |-> "agent_registered", agent |-> ags[i]]>>]
    ELSE [agents |-> Append(ags, agent),
          events |-> <<[name |-> "agent_registered", agent |-> agent]>>]

\* WorkUnitRegistry.register_agent
register_agent(ags, agent) ==
    LET i == AgentIndex(ags, agent.agent_id) IN
    IF i # 0
    THEN [agents |-> [ags EXCEPT ![i] = update_last_seen(ags[i])],
          events |-> <<>>]
    ELSE [agents |-> Append(ags, agent),
          events |-> <<[name |-> "agent_registered", agent |-> agent]>>]

\* a heartbeat that registers an agent it does not know
heartbeat_registers(ags, agent_id) ==
    LET i == AgentIndex(ags, agent_id) IN
    IF i # 0
    THEN [agents |-> [ags EXCEPT ![i] = update_last_seen(ags[i])], ret |-> TRUE]
    ELSE [agents |-> Append(ags, AgentInfo(agent_id, <<Head(agent_id)>>)), ret |-> TRUE]

\* WorkUnitRegistry.heartbeat
heartbeat(ags, agent_id) ==
    LET i == AgentIndex(ags, agent_id) IN
    IF i # 0
    THEN [agents |-> [ags EXCEPT ![i] = update_last_seen(ags[i])], ret |-> TRUE]
    ELSE [agents |-> ags, ret |-> FALSE]

\* a removal that releases what the agent owns but leaves it in the queues
RECURSIVE RemoveAgentLoop_no_filter(_, _, _, _)
RemoveAgentLoop_no_filter(wus, evs, agent_id, k) ==
    IF k > Len(wus) THEN [work_units |-> wus, events |-> evs]
    ELSE
    LET r == IF wus[k].owner_agent_id = Some(agent_id)
             THEN release_internal(wus, agent_id, wus[k].path)
             ELSE [work_units |-> wus, events |-> <<>>, ret |-> FALSE]
    IN RemoveAgentLoop_no_filter(r.work_units, evs \o r.events, agent_id, k + 1)

\* the loop of remove_agent over list(self._work_units.keys()), from the k-th key on
RECURSIVE RemoveAgentLoop(_, _, _, _)
RemoveAgentLoop(wus, evs, agent_id, k) ==
    IF k > Len(wus) THEN [work_units |-> wus, events |-> evs]
    ELSE
    LET r == IF wus[k].owner_agent_id = Some(agent_id)
             THEN release_internal(wus, agent_id, wus[k].path)
             ELSE [work_units |-> wus, events |-> <<>>, ret |-> FALSE]
        filtered == [r.work_units EXCEPT
                        ![k].queue = QueueWithout(r.work_units[k].queue, agent_id)]
    IN RemoveAgentLoop(filtered, evs \o r.events, agent_id, k + 1)

\* a removal that announces the agent's removal before the releases
remove_agent_announces_first(ags, wus, agent_id) ==
    IF AgentIndex(ags, agent_id) = 0
    THEN [agents |-> ags, work_units |-> wus, events |-> <<>>]
    ELSE
    LET r == RemoveAgentLoop(wus, <<>>, agent_id, 1) IN
    [agents |-> AgentsWithout(ags, agent_id),
     work_units |-> r.work_units,
     events |-> <<[name |-> "agent_removed", agent_id |-> agent_id]>> \o r.events]

\* a removal that deletes the agent and leaves its claims and queue entries
remove_agent_keeps_claims(ags, wus, agent_id) ==
    IF AgentIndex(ags, agent_id) = 0
    THEN [agents |-> ags, work_units |-> wus, events |-> <<>>]
    ELSE [agents |-> AgentsWithout(ags, agent_id),
          work_units |-> wus,
          events |-> <<[name |-> "agent_removed", agent_id |-> agent_id]>>]

\* WorkUnitRegistry.remove_agent
remove_agent(ags, wus, agent_id) ==
    IF AgentIndex(ags, agent_id) = 0
    THEN [agents |-> ags, work_units |-> wus, events |-> <<>>]
    ELSE
    LET r == RemoveAgentLoop(wus, <<>>, agent_id, 1) IN
    [agents |-> AgentsWithout(ags, agent_id),
     work_units |-> r.work_units,
     events |-> r.events \o <<[name |-> "agent_removed", agent_id |-> agent_id]>>]

\* ClaimResult
ClaimResult(success, queue_pos, owner_agent_id, message) ==
    [success |-> success, queue_position |-> queue_pos,
     owner_agent_id |-> owner_agent_id, message |-> message]

\* an auto-registration that takes the whole agent_id for the session_id
AutoRegister_whole_id(ags, agent_id) ==
    IF AgentIndex(ags, agent_id) = 0
    THEN Append(ags, AgentInfo(agent_id, agent_id))
    ELSE ags

\* the auto-registration at the head of claim
AutoRegister(ags, agent_id) ==
    IF AgentIndex(ags, agent_id) = 0
    THEN Append(ags, AgentInfo(agent_id, <<Head(agent_id)>>))
    ELSE ags

\* WorkUnit.id, f"wu-{uuid4().hex[:12]}": an id that no record of the table
\* has; records are never deleted, so the number of the record is one
FreshId(wus) == Len(wus) + 1

\* claim, Case 1: work unit doesn't exist - create and claim
ClaimCreate(ags, wus, agent_id, path, work_unit_type, ttl) ==
    LET wu == [path |-> path,
               type |-> work_unit_type,
               id |-> FreshId(wus),
               owner_agent_id |-> Some(agent_id),
               claimed_at |-> Some(Now),
               queue |-> <<>>,
               status |-> "claimed",
               ttl_seconds |-> ttl,
               expires_at |-> Some(Now + ttl)]
    IN [agents |-> ags,
        work_units |-> Append(wus, wu),
        events |-> <<[name |-> "work_unit_claimed", work_unit |-> wu]>>,
        result |-> ClaimResult(TRUE, None, None, <<"Work unit claimed">>)]

\* a refresh that leaves expires_at as it was
ClaimRefresh_keeps_expiry(ags, wus, i, ttl) ==
    [agents |-> ags,
     work_units |-> wus,
     events |-> <<>>,
     result |-> ClaimResult(TRUE, None, None, <<"Ownership refreshed">>)]

\* a refresh that stores the caller's ttl in the work unit
ClaimRefresh_stores_ttl(ags, wus, i, ttl) ==
    [agents |-> ags,
     work_units |-> [wus EXCEPT ![i].expires_at = Some(Now + ttl),
                                ![i].ttl_seconds = ttl],
     events |-> <<>>,
     result |-> ClaimResult(TRUE, None, None, <<"Ownership refreshed">>)]

\* claim, Case 2: already owned by this agent - refresh TTL
ClaimRefresh(ags, wus, i, ttl) ==
    [agents |-> ags,
     work_units |-> [wus EXCEPT ![i].expires_at = Some(Now + ttl)],
     events |-> <<>>,
     result |-> ClaimResult(TRUE, None, None, <<"Ownership refreshed">>)]

\* a claim by a queued agent that moves the agent to the back of the queue
ClaimQueued_requeues(ags, wus, i, agent_id) ==
    LET queue == Append(QueueWithout(wus[i].queue, agent_id), agent_id) IN
    [agents |-> ags,
     work_units |-> [wus EXCEPT ![i].queue = queue],
     events |-> <<>>,
     result |-> ClaimResult(FALSE, Some(Len(queue)), wus[i].owner_agent_id,
                            <<"Already in queue at position", Len(queue)>>)]

\* claim, Case 3: already in queue - return current position
ClaimQueued(ags, wus, i, agent_id) ==
    LET position == queue_position(wus[i], agent_id) IN
    [agents |-> ags,
     work_units |-> wus,
     events |-> <<>>,
     result |-> ClaimResult(FALSE, position, wus[i].owner_agent_id,
                            <<"Already in queue at position", position[1]>>)]

\* a claim on a busy work unit that takes the ownership over
ClaimEnqueue_takes_over(ags, wus, i, agent_id, path) ==
    [agents |-> ags,
     work_units |-> [wus EXCEPT ![i].owner_agent_id = Some(agent_id),
                                ![i].claimed_at = Some(Now)],
     events |-> <<>>,
     result |-> ClaimResult(TRUE, None, None, <<"Work unit claimed">>)]

\* claim, Case 4: owned by another agent - add to queue
ClaimEnqueue(ags, wus, i, agent_id, path) ==
    LET queue == Append(wus[i].queue, agent_id)
        position == Len(queue)
    IN
    [agents |-> ags,
     work_units |-> [wus EXCEPT ![i].queue = queue],
     events |-> <<[name |-> "agent_queued", path |-> path,
                   agent_id |-> agent_id, position |-> position]>>,
     result |-> ClaimResult(FALSE, Some(position), wus[i].owner_agent_id,
                   <<"Work unit busy. Added to queue at position", position>>)]

\* WorkUnitRegistry.claim
claim(ags, wus, agent_id, path, work_unit_type, ttl_seconds) ==
    LET ttl == EffectiveTtl(ttl_seconds)
        ags1 == AutoRegister(ags, agent_id)
        i == WuIndex(wus, path)
    IN
    IF i = 0 THEN ClaimCreate(ags1, wus, agent_id, path, work_unit_type, ttl)
    ELSE IF wus[i].owner_agent_id = Some(agent_id) THEN ClaimRefresh(ags1, wus, i, ttl)
    ELSE IF is_in_queue(wus[i], agent_id) THEN ClaimQueued(ags1, wus, i, agent_id)
    ELSE ClaimEnqueue(ags1, wus, i, agent_id, path)

\* a release that gives up every path the agent owns
release_every_path(wus, agent_id, path) ==
    LET r == RemoveAgentLoop_no_filter(wus, <<>>, agent_id, 1) IN
    [work_units |-> r.work_units, events |-> r.events, ret |-> r.events # <<>>]

\* WorkUnitRegistry.release
release(wus, agent_id, path) == release_internal(wus, agent_id, path)

\* a leave_queue that takes the head of the queue off when the agent is queued
leave_queue_pops_head(wus, agent_id, path) ==
    LET i == WuIndex(wus, path) IN
    IF i = 0 THEN [work_units |-> wus, events |-> <<>>, ret |-> FALSE]
    ELSE IF is_in_queue(wus[i], agent_id)
    THEN [work_units |-> [wus EXCEPT ![i].queue = Tail(wus[i].queue)],
          events |-> <<[name |-> "agent_left_queue", path |-> path,
                        agent_id |-> agent_id]>>,
          ret |-> TRUE]
    ELSE [work_units |-> wus, events |-> <<>>, ret |-> FALSE]

\* WorkUnitRegistry.leave_queue
leave_queue(wus, agent_id, path) ==
    LET i == WuIndex(wus, path) IN
    IF i = 0 THEN [work_units |-> wus, events |-> <<>>, ret |-> FALSE]
    ELSE
    LET original_len == Len(wus[i].queue)
        queue == QueueWithout(wus[i].queue, agent_id)
    IN
    IF Len(queue) < original_len
    THEN [work_units |-> [wus EXCEPT ![i].queue = queue],
          events |-> <<[name |-> "agent_left_queue", path |-> path,
                        agent_id |-> agent_id]>>,
          ret |-> TRUE]
    ELSE [work_units |-> [wus EXCEPT ![i].queue = queue],
          events |-> <<>>, ret |-> FALSE]

\* Python truthiness of an Optional[str]: None and "" are false
Truthy(opt_agent_id) == opt_agent_id # None /\ opt_agent_id[1] # <<"">>

\* a sweep that treats a claim expiring now as expired
RECURSIVE CleanupWorkUnits_expires_now(_, _, _, _)
CleanupWorkUnits_expires_now(wus, evs, released, k) ==
    IF k > Len(wus) THEN [work_units |-> wus, events |-> evs, released |-> released]
    ELSE
    LET wu == wus[k] IN
    IF /\ wu.expires_at # None
       /\ wu.expires_at[1] <= Now
       /\ Truthy(wu.owner_agent_id)
    THEN LET r == release_internal(wus, wu.owner_agent_id[1], wu.path) IN
         CleanupWorkUnits_expires_now(r.work_units, evs \o r.events,
                                      Append(released, wu.path), k + 1)
    ELSE CleanupWorkUnits_expires_now(wus, evs, released, k + 1)

\* first loop of cleanup_expired, over list(self._work_units.items()) from the k-th on
RECURSIVE CleanupWorkUnits(_, _, _, _)
CleanupWorkUnits(wus, evs, released, k) ==
    IF k > Len(wus) THEN [work_units |-> wus, events |-> evs, released |-> released]
    ELSE
    LET wu == wus[k] IN
    IF /\ wu.expires_at # None
       /\ wu.expires_at[1] < Now
       /\ Truthy(wu.owner_agent_id)
    THEN LET r == release_internal(wus, wu.owner_agent_id[1], wu.path) IN
         CleanupWorkUnits(r.work_units, evs \o r.events, Append(released, wu.path), k + 1)
    ELSE CleanupWorkUnits(wus, evs, released, k + 1)

\* second loop of cleanup_expired, over ids = list(self._agents.keys()), from the
\* k-th id on
RECURSIVE CleanupAgents(_, _, _, _, _)
CleanupAgents(ags, wus, evs, ids, k) ==
    IF k > Len(ids) THEN [agents |-> ags, work_units |-> wus, events |-> evs]
    ELSE
    LET agent == ags[AgentIndex(ags, ids[k])] IN
    IF is_expired(agent)
    THEN The({CleanupAgents(r.agents, r.work_units, evs \o r.events, ids, k + 1) :
                 r \in {remove_agent(ags, wus, ids[k])}})
    ELSE CleanupAgents(ags, wus, evs, ids, k + 1)

\* list(self._agents.keys())
AgentKeys(ags) == [i \in 1..Len(ags) |-> ags[i].agent_id]

\* WorkUnitRegistry.cleanup_expired
cleanup_expired(ags, wus) ==
    The({The({[agents |-> a.agents, work_units |-> a.work_units,
               events |-> a.events, released |-> w.released] :
                 a \in {CleanupAgents(ags, w.work_units, w.events, AgentKeys(ags), 1)}}) :
            w \in {CleanupWorkUnits(wus, <<>>, <<>>, 1)}})

-----------------------------------------------------------------------------
(* The passing of time *)

\* a datetime one second later, seen from the new current time
Later(t, floor) == IF t > floor THEN t - 1 ELSE t

LaterOpt(opt_t, floor) == IF opt_t = None THEN None ELSE Some(Later(opt_t[1], floor))

-----------------------------------------------------------------------------
(* Actions: one per request handler, plus the reaper and the clock *)

\* what `last` records of an operation
Op(op, agent_id, path, ret, result, released) ==
    [op |-> op, agent_id |-> agent_id, path |-> path, ret |-> ret,
     queue_position |-> result.queue_position,
     owner_agent_id |-> result.owner_agent_id,
     message |-> result.message,
     released |-> released]

NoResult == ClaimResult(FALSE, None, None, <<>>)

SessionIds == {<<"s1">>, <<"s2">>}

\* POST /agents/register with agent_type "main"
RegisterMain(session_id) ==
    LET r == register_agent(agents, create_main_agent(session_id)) IN
    /\ agents' = r.agents
    /\ events' = r.events
    /\ last' = Op("register", session_id, "", TRUE, NoResult, <<>>)
    /\ UNCHANGED work_units
    /\ Atomic

\* POST /agents/register with agent_type "subagent"
RegisterSub(session_id, task_tool_use_id, parent_agent_id) ==
    LET agent == create_subagent(session_id, task_tool_use_id, parent_agent_id)
        r == register_agent(agents, agent)
    IN
    /\ agents' = r.agents
    /\ events' = r.events
    /\ last' = Op("register", agent.agent_id, "", TRUE, NoResult, <<>>)
    /\ UNCHANGED work_units
    /\ Atomic

\* POST /agents/{agent_id}/heartbeat
Heartbeat(agent_id) ==
    LET r == heartbeat(agents, agent_id) IN
    /\ agents' = r.agents
    /\ events' = <<>>
    /\ last' = Op("heartbeat", agent_id, "", r.ret, NoResult, <<>>)
    /\ UNCHANGED work_units
    /\ Atomic

\* DELETE /agents/{agent_id} -> WorkUnitRegistry.remove_agent
RemoveAgent(agent_id) ==
    LET r == remove_agent(agents, work_units, agent_id) IN
    /\ agents' = r.agents
    /\ work_units' = r.work_units
    /\ events' = r.events
    /\ last' = Op("remove_agent", agent_id, "", AgentIndex(agents, agent_id) # 0,
                  NoResult, <<>>)
    /\ Atomic

\* POST /work-units/claim
Claim(agent_id, path, work_unit_type, ttl_seconds) ==
    LET r == claim(agents, work_units, agent_id, path, work_unit_type, ttl_seconds) IN
    /\ agents' = r.agents
    /\ work_units' = r.work_units
    /\ events' = r.events
    /\ last' = Op("claim", agent_id, path, r.result.success, r.result, <<>>)
    /\ Atomic

\* POST /work-units/release
Release(agent_id, path) ==
    LET r == release(work_units, agent_id, path) IN
    /\ work_units' = r.work_units
    /\ events' = r.events
    /\ last' = Op("release", agent_id, path, r.ret, NoResult, <<>>)
    /\ UNCHANGED agents
    /\ Atomic

\* POST /work-units/leave-queue
LeaveQueue(agent_id, path) ==
    LET r == leave_queue(work_units, agent_id, path) IN
    /\ work_units' = r.work_units
    /\ events' = r.events
    /\ last' = Op("leave_queue", agent_id, path, r.ret, NoResult, <<>>)
    /\ UNCHANGED agents
    /\ Atomic

\* one sweep of periodic_cleanup: registry.cleanup_expired()
CleanupExpired ==
    LET r == cleanup_expired(agents, work_units) IN
    /\ agents' = r.agents
    /\ work_units' = r.work_units
    /\ events' = r.events
    /\ last' = Op("cleanup_expired", <<>>, "", TRUE, NoResult, r.released)
    /\ Atomic

\* one second passes
Tick ==
    /\ agents' = [i \in 1..Len(agents) |->
                    [agents[i] EXCEPT !.last_seen = Later(agents[i].last_seen, OldestSeen)]]
    /\ work_units' = [i \in 1..Len(work_units) |->
                    [work_units[i] EXCEPT
                        !.claimed_at = LaterOpt(work_units[i].claimed_at, Past),
                        !.expires_at = LaterOpt(work_units[i].expires_at, Past)]]
    /\ events' = <<>>
    /\ last' = Op("tick", <<>>, "", TRUE, NoResult, <<>>)
    /\ Atomic

\* the threads of the server: two request handlers of the thread pool (the
\* routes are plain `def` functions) and periodic_cleanup
Handlers == {"h1", "h2"}

Reaper == "reaper"

Threads == Handlers \cup {Reaper}

\* a thread that is in no call
NoCall ==
    [pc |-> "idle", op |-> "", agent_id |-> <<>>, path |-> "",
     pre_agents |-> <<>>, pre_work_units |-> <<>>,
     result |-> NoResult, ret |-> FALSE, released |-> <<>>,
     effect |-> None, response |-> None]

\* main.py after import: lifespan has not started, cleanup_task is None, no
\* cancellation is asked for; `sweeps` tells one run of cleanup_expired by the
\* task from the next
NoServer == [lifespan |-> "created", task |-> "none", cancel |-> FALSE, sweeps |-> 0]

\* self._on_change_callbacks, in the order of registration
Sinks == <<"ui", "log">>

Init ==
    /\ agents = <<>>
    /\ work_units = <<>>
    /\ events = <<>>
    /\ last = Op("init", <<>>, "", TRUE, NoResult, <<>>)
    /\ lock = None
    /\ calls = [t \in Threads |-> NoCall]
    /\ delivered = [i \in 1..Len(Sinks) |-> <<>>]
    /\ server = NoServer

\* three agents contending for one path
Next ==
    \/ \E s \in SessionIds : RegisterMain(s)
    \/ \E a \in AgentIds : Heartbeat(a)
    \/ \E a \in AgentIds : RemoveAgent(a)
    \/ \E a \in AgentIds, p \in OnePath, ty \in WorkUnitTypes, ttl \in TtlInputs :
            Claim(a, p, ty, ttl)
    \/ \E a \in AgentIds, p \in OnePath : Release(a, p)
    \/ \E a \in AgentIds, p \in OnePath : LeaveQueue(a, p)
    \/ CleanupExpired
    \/ Tick

Spec == Init /\ [][Next]_vars

\* two agents and two paths
NextPaths ==
    \/ \E s \in TwoAgents : RegisterMain(s)
    \/ \E a \in TwoAgents : Heartbeat(a)
    \/ \E a \in TwoAgents : RemoveAgent(a)
    \/ \E a \in TwoAgents, p \in Paths, ty \in WorkUnitTypes : Claim(a, p, ty, None)
    \/ \E a \in TwoAgents, p \in Paths : Release(a, p)
    \/ \E a \in TwoAgents, p \in Paths : LeaveQueue(a, p)
    \/ CleanupExpired
    \/ Tick

SpecPaths == Init /\ [][NextPaths]_vars

\* two agents and one path, claimed with every type and with differing ttls
NextInputs ==
    \/ \E s \in TwoAgents : RegisterMain(s)
    \/ \E a \in TwoAgents : Heartbeat(a)
    \/ \E a \in TwoAgents : RemoveAgent(a)
    \/ \E a \in TwoAgents, p \in OnePath, ty \in AllWorkUnitTypes, ttl \in AllTtlInputs :
            Claim(a, p, ty, ttl)
    \/ \E a \in TwoAgents, p \in OnePath : Release(a, p)
    \/ \E a \in TwoAgents, p \in OnePath : LeaveQueue(a, p)
    \/ CleanupExpired
    \/ Tick

SpecInputs == Init /\ [][NextInputs]_vars

\* two agents and one path
NextLive ==
    \/ \E a \in TwoAgents : Heartbeat(a)
    \/ \E a \in TwoAgents : RemoveAgent(a)
    \/ \E a \in TwoAgents, p \in OnePath : Claim(a, p, "file", None)
    \/ \E a \in TwoAgents, p \in OnePath : Release(a, p)
    \/ \E a \in TwoAgents, p \in OnePath : LeaveQueue(a, p)
    \/ CleanupExpired
    \/ Tick

\* time passes, and periodic_cleanup sweeps again and again
LiveSpec == Init /\ [][NextLive]_vars /\ WF_vars(Tick) /\ WF_vars(CleanupExpired)

-----------------------------------------------------------------------------
(* Reading the state *)

Has(wus, p) == WuIndex(wus, p) # 0

Get(wus, p) == wus[WuIndex(wus, p)]

OwnerOf(wus, p) == IF Has(wus, p) THEN Get(wus, p).owner_agent_id ELSE None

QueueOf(wus, p) == IF Has(wus, p) THEN Get(wus, p).queue ELSE <<>>

Registered(ags, a) == AgentIndex(ags, a) # 0

InQueue(q, a) == \E i \in 1..Len(q) : q[i] = a

\* the position of a in a queue that holds it
Pos(q, a) == CHOOSE i \in 1..Len(q) : q[i] = a

\* the new owners of the work_unit_transferred events for p, in the order emitted
RECURSIVE Transfers(_, _)
Transfers(evs, p) ==
    IF evs = <<>> THEN <<>>
    ELSE IF Head(evs).name = "work_unit_transferred" /\ Head(evs).path = p
    THEN <<Head(evs).new_owner>> \o Transfers(Tail(evs), p)
    ELSE Transfers(Tail(evs), p)

EventNames == [i \in 1..Len(events) |-> events[i].name]

-----------------------------------------------------------------------------
(* Claims *)

\* C1 (Spec): mutual exclusion.  While an agent owns a path, a claim on that
\* path by any other agent returns success = false and leaves the owner in
\* place; the owner of an owned path changes only when that owner releases the
\* path, when that owner is removed, or in a sweep that finds the claim or the
\* owner expired; and a claim that returns success = true leaves the caller as
\* the owner.
C1_MutualExclusion ==
    [][\A p \in Paths :
        LET owner == OwnerOf(work_units, p)
            owner2 == OwnerOf(work_units', p)
        IN
        /\ (last'.op = "claim" /\ last'.path = p /\ last'.ret)
              => owner2 = Some(last'.agent_id)
        /\ owner # None =>
            /\ (last'.op = "claim" /\ last'.path = p /\ owner # Some(last'.agent_id))
                  => (~last'.ret /\ owner2 = owner)
            /\ owner2 # owner =>
                \/ /\ last'.op = "release"
                   /\ last'.path = p
                   /\ owner = Some(last'.agent_id)
                \/ /\ last'.op = "remove_agent"
                   /\ owner = Some(last'.agent_id)
                \/ /\ last'.op = "cleanup_expired"
                   /\ \/ Get(work_units, p).expires_at[1] < Now
                      \/ /\ Registered(agents, owner[1])
                         /\ is_expired(agents[AgentIndex(agents, owner[1])])
    ]_vars

\* C1 witness: a claim by another agent has just been refused on an owned path
C1_Witness ==
    /\ last.op = "claim"
    /\ ~last.ret
    /\ OwnerOf(work_units, last.path) # None
    /\ OwnerOf(work_units, last.path) # Some(last.agent_id)
    /\ InQueue(QueueOf(work_units, last.path), last.agent_id)

\* C2 (Spec): FIFO.  In every operation and for every path: the entries that
\* stay in the queue keep their relative order and a new entry goes behind all
\* of them; every agent that is handed the ownership comes from the queue, in
\* queue order, and everyone who was ahead of it was handed the ownership
\* before it or was removed as an agent; a work unit that existed gets a new
\* owner only by such a hand-over; and a release by the owner hands the path
\* to the head of the queue and takes exactly the head off the queue.
C2_Fifo ==
    [][\A p \in Paths :
        LET q == QueueOf(work_units, p)
            q2 == QueueOf(work_units', p)
            t == Transfers(events', p)
            owner2 == OwnerOf(work_units', p)
        IN
        /\ \A i, j \in 1..Len(q2) :
              (i < j /\ InQueue(q, q2[j]))
                 => (InQueue(q, q2[i]) /\ Pos(q, q2[i]) < Pos(q, q2[j]))
        /\ \A i \in 1..Len(t) :
              /\ InQueue(q, t[i])
              /\ \A k \in 1..(i - 1) : Pos(q, t[k]) < Pos(q, t[i])
              /\ \A j \in 1..(Pos(q, t[i]) - 1) :
                    \/ \E k \in 1..(i - 1) : t[k] = q[j]
                    \/ ~Registered(agents', q[j])
        /\ (owner2 # OwnerOf(work_units, p) /\ owner2 # None /\ Has(work_units, p))
              => (t # <<>> /\ owner2 = Some(t[Len(t)]))
        /\ (last'.op = "release" /\ last'.path = p /\ last'.ret /\ q # <<>>)
              => (owner2 = Some(Head(q)) /\ q2 = Tail(q))
    ]_vars

\* C2 witness: a release has handed the path to the head of a queue of two, and
\* the second entry is still waiting
C2_Witness ==
    /\ last.op = "release"
    /\ last.ret
    /\ EventNames = <<"work_unit_transferred">>
    /\ Len(QueueOf(work_units, last.path)) = 1
    /\ OwnerOf(work_units, last.path) = Some(events[1].new_owner)

\* C3 (Spec), the claim as stated: a claim on a path whose record exists and
\* has no owner makes the caller the owner, sets status = claimed and returns
\* success = true.
C3_ClaimAvailable ==
    [][\A p \in Paths :
        (last'.op = "claim" /\ last'.path = p
            /\ Has(work_units, p) /\ OwnerOf(work_units, p) = None)
        => /\ last'.ret
           /\ OwnerOf(work_units', p) = Some(last'.agent_id)
           /\ Get(work_units', p).status = "claimed"
    ]_vars

\* C3 failing case: a claim on an existing record without owner has put the
\* caller in the queue of a work unit that stays available
C3_Witness ==
    /\ last.op = "claim"
    /\ ~last.ret
    /\ last.queue_position = Some(1)
    /\ Has(work_units, last.path)
    /\ Get(work_units, last.path).status = "available"
    /\ OwnerOf(work_units, last.path) = None
    /\ QueueOf(work_units, last.path) = <<last.agent_id>>

\* the owner refreshes its claim
Refreshed == last.op = "claim" /\ last.message = <<"Ownership refreshed">>

Queued(a, p) == InQueue(QueueOf(work_units, p), a)

\* C4 (LiveSpec), the claim as stated: every agent in the queue of a path
\* eventually owns the path, unless it leaves the queue (by leave_queue or by
\* being removed) or the owner refreshes its claim once more.  (Equivalent to:
\* if the owners stop refreshing, every agent that stays queued becomes owner.)
C4_QueuedEventuallyOwns ==
    \A a \in TwoAgents : \A p \in OnePath :
        Queued(a, p) ~> (OwnerOf(work_units, p) = Some(a) \/ ~Queued(a, p) \/ Refreshed)

\* C4 failing case: the reaper has run, after time has passed, over a work
\* unit without owner whose queue holds a registered agent, and promoted nobody
C4_Witness ==
    /\ last.op = "cleanup_expired"
    /\ \E a \in TwoAgents : \E p \in OnePath :
        /\ Queued(a, p)
        /\ Registered(agents, a)
        /\ OwnerOf(work_units, p) = None

\* C5 (Spec): in every work unit the owner is not in the queue and no agent is
\* in the queue twice.
C5_QueueWellFormed ==
    \A i \in 1..Len(work_units) :
        LET wu == work_units[i] IN
        /\ \A k \in 1..Len(wu.queue) : Some(wu.queue[k]) # wu.owner_agent_id
        /\ \A k, l \in 1..Len(wu.queue) : k # l => wu.queue[k] # wu.queue[l]

\* C5 witness: an agent in a queue of two behind an owner has claimed again and
\* was told its position
C5_Witness ==
    /\ last.op = "claim"
    /\ ~last.ret
    /\ last.message[1] = "Already in queue at position"
    /\ Len(QueueOf(work_units, last.path)) = 2
    /\ OwnerOf(work_units, last.path) # None

\* C6 (Spec): in every work unit, status = claimed iff there is an owner iff
\* expires_at is set; an owned work unit has claimed_at set; an unowned one is
\* available with claimed_at and expires_at null.
C6_OwnershipCoherent ==
    \A i \in 1..Len(work_units) :
        LET wu == work_units[i] IN
        /\ wu.status \in {"available", "claimed"}
        /\ (wu.status = "claimed") <=> (wu.owner_agent_id # None)
        /\ (wu.owner_agent_id # None) <=> (wu.expires_at # None)
        /\ wu.owner_agent_id # None => wu.claimed_at # None
        /\ wu.owner_agent_id = None =>
              (wu.status = "available" /\ wu.claimed_at = None /\ wu.expires_at = None)

\* C6 witness: the owner has released a path nobody waited for
C6_Witness ==
    /\ last.op = "release"
    /\ last.ret
    /\ EventNames = <<"work_unit_released">>
    /\ Get(work_units, last.path).status = "available"

\* C7 (Spec): a release by the owner of a path with a non-empty queue returns
\* true, makes the head of the queue the owner, takes exactly the head off the
\* queue, sets claimed_at = now and expires_at = now + the work unit's
\* ttl_seconds, and leaves the former owner neither owner nor queued.
C7_ReleasePromotesHead ==
    [][\A p \in Paths :
        (last'.op = "release" /\ last'.path = p
            /\ OwnerOf(work_units, p) = Some(last'.agent_id)
            /\ QueueOf(work_units, p) # <<>>)
        => LET wu == Get(work_units, p)
               wu2 == Get(work_units', p)
           IN
           /\ last'.ret
           /\ wu2.owner_agent_id = Some(Head(wu.queue))
           /\ wu2.queue = Tail(wu.queue)
           /\ wu2.claimed_at = Some(Now)
           /\ wu2.expires_at = Some(Now + wu.ttl_seconds)
           /\ wu2.status = "claimed"
           /\ wu2.owner_agent_id # Some(last'.agent_id)
           /\ ~InQueue(wu2.queue, last'.agent_id)
    ]_vars

\* C7 witness: a release some time after the claim has promoted the head of the
\* queue, whose claim starts now
C7_Witness ==
    /\ last.op = "release"
    /\ last.ret
    /\ OwnerOf(work_units, last.path) # None
    /\ OwnerOf(work_units, last.path) # Some(last.agent_id)
    /\ Get(work_units, last.path).claimed_at = Some(Now)
    /\ \E i \in 1..Len(agents) : agents[i].last_seen < Now

\* C8 (Spec): a release by an agent that is not the owner of the path (no
\* record, another owner, no owner) returns false, changes no work unit and no
\* agent and emits nothing; so does a second release right after a successful
\* one.
C8_ReleaseByNonOwner ==
    [][/\ (last'.op = "release"
              /\ OwnerOf(work_units, last'.path) # Some(last'.agent_id))
           => (~last'.ret /\ work_units' = work_units /\ agents' = agents
                  /\ events' = <<>>)
       /\ (last.op = "release" /\ last.ret /\ last'.op = "release"
              /\ last'.agent_id = last.agent_id /\ last'.path = last.path)
           => (~last'.ret /\ work_units' = work_units)
    ]_vars

\* C8 witness: a former owner, whose path went to the head of the queue, has
\* tried to release it again
C8_Witness ==
    /\ last.op = "release"
    /\ ~last.ret
    /\ OwnerOf(work_units, last.path) # None
    /\ OwnerOf(work_units, last.path) # Some(last.agent_id)
    /\ ~Queued(last.agent_id, last.path)

\* last_seen of a registered agent
LastSeen(ags, a) == ags[AgentIndex(ags, a)].last_seen

\* C9 (Spec), the claim as stated: a claim by a registered agent, a successful
\* release, a successful leave_queue and a heartbeat of a registered agent set
\* the caller's last_seen to the current time.
C9_SuccessRefreshesLastSeen ==
    [][(/\ last'.op \in {"claim", "release", "leave_queue", "heartbeat"}
        /\ last'.op # "claim" => last'.ret
        /\ Registered(agents, last'.agent_id))
       => LastSeen(agents', last'.agent_id) = Now
    ]_vars

\* C9 failing case: a registered agent was granted a path some time after it
\* was last seen, and its last_seen is still the old one
C9_Witness ==
    /\ last.op = "claim"
    /\ last.ret
    /\ last.message = <<"Work unit claimed">>
    /\ Registered(agents, last.agent_id)
    /\ LastSeen(agents, last.agent_id) < Now

\* C10 (SpecPaths): after remove_agent(A), A owns no work unit, is in no queue
\* and is not registered; when A was registered, every path A owned has gone to
\* the head of its queue, or is available when nobody waited, and every other
\* path keeps its owner and loses only A from its queue.
C10_RemoveAgent ==
    [][last'.op = "remove_agent" =>
        LET a == last'.agent_id IN
        /\ ~Registered(agents', a)
        /\ \A p \in Paths :
            LET q == QueueOf(work_units, p)
                wu2 == Get(work_units', p)
            IN
            /\ Has(work_units', p) = Has(work_units, p)
            /\ OwnerOf(work_units', p) # Some(a)
            /\ ~InQueue(QueueOf(work_units', p), a)
            /\ (Registered(agents, a) /\ OwnerOf(work_units, p) = Some(a) /\ q # <<>>)
                  => (wu2.owner_agent_id = Some(Head(q))
                        /\ wu2.queue = QueueWithout(Tail(q), a))
            /\ (Registered(agents, a) /\ OwnerOf(work_units, p) = Some(a) /\ q = <<>>)
                  => (wu2.owner_agent_id = None /\ wu2.status = "available"
                        /\ wu2.queue = <<>>)
            /\ (Has(work_units, p) /\ OwnerOf(work_units, p) # Some(a))
                  => (wu2.owner_agent_id = OwnerOf(work_units, p)
                        /\ wu2.queue = QueueWithout(q, a))
    ]_vars

\* C10 witness: the removed agent owned two paths, one with a waiting agent,
\* which now owns it, and one without
C10_Witness ==
    /\ last.op = "remove_agent"
    /\ last.ret
    /\ \E i, j \in 1..Len(events) :
          /\ events[i].name = "work_unit_transferred"
          /\ events[j].name = "work_unit_released"
          /\ OwnerOf(work_units, events[i].path) = Some(events[i].new_owner)
          /\ OwnerOf(work_units, events[j].path) = None

-----------------------------------------------------------------------------
(* C11: the sweep over expired work units *)

\* agent ids of the sweep specification; <<"">> is the empty string, which the
\* claim route and the registry accept as an agent_id
SweepAgents == {<<"">>, <<"s1">>, <<"s2">>}

\* three agents, one of them with the empty id, one path, the reaper and the clock
NextSweep ==
    \/ \E a \in SweepAgents : Heartbeat(a)
    \/ \E a \in SweepAgents, p \in OnePath : Claim(a, p, "file", None)
    \/ \E a \in SweepAgents, p \in OnePath : Release(a, p)
    \/ \E a \in SweepAgents, p \in OnePath : LeaveQueue(a, p)
    \/ CleanupExpired
    \/ Tick

SpecSweep == Init /\ [][NextSweep]_vars

\* the agent is registered and agent.is_expired()
Expired(ags, a) == Registered(ags, a) /\ is_expired(ags[AgentIndex(ags, a)])

\* the first entry of the queue whose agent is not expired, if any
RECURSIVE FirstLive(_, _)
FirstLive(ags, queue) ==
    IF queue = <<>> THEN None
    ELSE IF ~Expired(ags, Head(queue)) THEN Some(Head(queue))
    ELSE FirstLive(ags, Tail(queue))

\* the work unit is owned and its expires_at lies before now
ClaimExpired(wu) ==
    wu.owner_agent_id # None /\ wu.expires_at # None /\ wu.expires_at[1] < Now

-----------------------------------------------------------------------------
(* C12: the owner claims its own path again *)

\* C12 (SpecInputs): a claim by the owner of the path, with any type and any
\* ttl_seconds, returns success = true with the message "Ownership refreshed",
\* sets expires_at = now + ttl (the ttl of this call, the default when absent),
\* changes nothing else of the work unit (owner, claimed_at, queue, status,
\* type, ttl_seconds), changes no other work unit and emits nothing; when the
\* expiry dated from the start of the claim with the same ttl and that start
\* lies strictly before now, expires_at is strictly greater than before.
C12_RefreshIdempotent ==
    [][\A a \in TwoAgents, p \in OnePath, ty \in AllWorkUnitTypes, ttl \in AllTtlInputs :
        (/\ last'.op = "claim"
         /\ last'.agent_id = a
         /\ last'.path = p
         /\ OwnerOf(work_units, p) = Some(a)
         /\ Claim(a, p, ty, ttl)) =>
            LET i == WuIndex(work_units, p)
                wu == work_units[i]
                wu2 == Get(work_units', p)
                T == EffectiveTtl(ttl)
            IN
            /\ last'.ret
            /\ last'.message = <<"Ownership refreshed">>
            /\ last'.queue_position = None
            /\ wu2.expires_at = Some(Now + T)
            /\ work_units' = [work_units EXCEPT ![i].expires_at = Some(Now + T)]
            /\ events' = <<>>
            /\ (wu.expires_at = Some(wu.claimed_at[1] + T) /\ wu.claimed_at[1] < Now)
                   => wu2.expires_at[1] > wu.expires_at[1]
    ]_vars

\* C12 witness: the owner has refreshed, some time after its claim began, with
\* a ttl other than the one the work unit was created with
C12_Witness ==
    /\ last.op = "claim"
    /\ last.ret
    /\ last.message = <<"Ownership refreshed">>
    /\ OwnerOf(work_units, last.path) = Some(last.agent_id)
    /\ Get(work_units, last.path).claimed_at[1] < Now
    /\ Get(work_units, last.path).expires_at = Some(Now + DefaultTtl + 1)
    /\ Get(work_units, last.path).ttl_seconds = DefaultTtl

-----------------------------------------------------------------------------
(* C13: a queued agent claims again *)

\* C13 (Spec): a claim by an agent that is in the queue of the path returns
\* success = false with the agent's 1-based position and the owner of the
\* path, changes no work unit (queue, owner, expires_at) and no agent, and
\* emits nothing.
C13_DuplicateQueueClaim ==
    [][(/\ last'.op = "claim"
        /\ InQueue(QueueOf(work_units, last'.path), last'.agent_id))
       => /\ ~last'.ret
          /\ last'.queue_position =
                Some(Pos(QueueOf(work_units, last'.path), last'.agent_id))
          /\ last'.owner_agent_id = OwnerOf(work_units, last'.path)
          /\ work_units' = work_units
          /\ agents' = agents
          /\ events' = <<>>
    ]_vars

\* C13 witness: the second of two agents waiting behind an owner has claimed
\* again and was told position 2 and the owner
C13_Witness ==
    /\ last.op = "claim"
    /\ ~last.ret
    /\ last.queue_position = Some(2)
    /\ last.message = <<"Already in queue at position", 2>>
    /\ Len(QueueOf(work_units, last.path)) = 2
    /\ QueueOf(work_units, last.path)[2] = last.agent_id
    /\ last.owner_agent_id # None
    /\ last.owner_agent_id = OwnerOf(work_units, last.path)

-----------------------------------------------------------------------------
(* C14: what a claim returns against what it did *)

\* C14 (Spec), the claim as stated: after a claim that returned success =
\* false the caller is in the queue of the path at exactly the returned
\* position and the returned owner is the owner of the path, an agent other
\* than the caller; after a claim that returned success = true the caller is
\* the owner and no position is returned.
C14_ClaimResultCoherent ==
    last.op = "claim" =>
        LET q == QueueOf(work_units, last.path)
            owner == OwnerOf(work_units, last.path)
        IN
        /\ ~last.ret =>
              /\ InQueue(q, last.agent_id)
              /\ last.queue_position = Some(Pos(q, last.agent_id))
              /\ last.owner_agent_id = owner
              /\ last.owner_agent_id # None
              /\ last.owner_agent_id # Some(last.agent_id)
        /\ last.ret =>
              /\ owner = Some(last.agent_id)
              /\ last.queue_position = None

\* C14 failing case: an agent waiting on a path without owner has claimed
\* again; the result names its position and no owner
C14_Witness ==
    /\ last.op = "claim"
    /\ ~last.ret
    /\ last.message[1] = "Already in queue at position"
    /\ last.owner_agent_id = None
    /\ OwnerOf(work_units, last.path) = None
    /\ InQueue(QueueOf(work_units, last.path), last.agent_id)

-----------------------------------------------------------------------------
(* C15: claim, release, claim *)

\* C15 (Spec), the claim as stated: a release by the owner of a path on which
\* nobody waits leaves the work unit available, with owner, claimed_at and
\* expires_at null and the queue empty; and the claim that follows that
\* release on that path, by any agent, is granted.
C15_ClaimReleaseClaim ==
    [][/\ (/\ last'.op = "release"
           /\ last'.ret
           /\ QueueOf(work_units, last'.path) = <<>>)
          => LET wu2 == Get(work_units', last'.path) IN
             /\ wu2.status = "available"
             /\ wu2.owner_agent_id = None
             /\ wu2.claimed_at = None
             /\ wu2.expires_at = None
             /\ wu2.queue = <<>>
       /\ (/\ last.op = "release"
           /\ last.ret
           /\ OwnerOf(work_units, last.path) = None
           /\ QueueOf(work_units, last.path) = <<>>
           /\ last'.op = "claim"
           /\ last'.path = last.path)
          => /\ last'.ret
             /\ OwnerOf(work_units', last'.path) = Some(last'.agent_id)
             /\ Get(work_units', last'.path).status = "claimed"
    ]_vars

\* C15 failing case: the path was claimed and given up by one agent, and the
\* claim of a second agent has put that agent in the queue of the path, which
\* is still available
C15_Witness ==
    /\ last.op = "claim"
    /\ ~last.ret
    /\ Len(agents) = 2
    /\ agents[2].agent_id = last.agent_id
    /\ events = <<[name |-> "agent_queued", path |-> last.path,
                   agent_id |-> last.agent_id, position |-> 1]>>
    /\ OwnerOf(work_units, last.path) = None
    /\ Get(work_units, last.path).status = "available"
    /\ Get(work_units, last.path).claimed_at = None

-----------------------------------------------------------------------------
(* C16: leave_queue *)

\* C16 (Spec): leave_queue(A, p) returns true exactly when A was in the queue
\* of p; it then takes exactly A's entry out of the queue, the other entries
\* keeping their order, and changes nothing else of the work unit (owner,
\* claimed_at, expires_at, status), no other work unit and no agent; when A
\* was not in the queue (no record, A the owner, A absent) it returns false,
\* changes nothing and emits nothing; a second leave_queue(A, p) right after
\* the first returns false.
C16_LeaveQueue ==
    [][last'.op = "leave_queue" =>
        LET a == last'.agent_id
            p == last'.path
            i == WuIndex(work_units, p)
            q == QueueOf(work_units, p)
        IN
        /\ last'.ret = InQueue(q, a)
        /\ agents' = agents
        /\ InQueue(q, a) =>
              LET k == Pos(q, a) IN
              /\ work_units' = [work_units EXCEPT
                    ![i].queue = SubSeq(q, 1, k - 1) \o SubSeq(q, k + 1, Len(q))]
              /\ ~InQueue(QueueOf(work_units', p), a)
        /\ ~InQueue(q, a) => (work_units' = work_units /\ events' = <<>>)
        /\ (last.op = "leave_queue" /\ last.agent_id = a /\ last.path = p)
              => (~last'.ret /\ work_units' = work_units)
    ]_vars

\* C16 witness: the second of two waiting agents has left the queue; the first
\* still waits behind the owner
C16_Witness ==
    /\ last.op = "leave_queue"
    /\ last.ret
    /\ OwnerOf(work_units, last.path) # None
    /\ Len(QueueOf(work_units, last.path)) = 1
    /\ ~InQueue(QueueOf(work_units, last.path), last.agent_id)
    /\ Len(agents) = 3
    /\ agents[3].agent_id = last.agent_id

-----------------------------------------------------------------------------
(* C17: the list cleanup_expired returns *)

\* how often the path is in the list
RECURSIVE Count(_, _)
Count(paths, p) ==
    IF paths = <<>> THEN 0
    ELSE (IF Head(paths) = p THEN 1 ELSE 0) + Count(Tail(paths), p)

\* C17 (SpecSweep), the claim as stated: the list a sweep returns holds, once
\* each, exactly the paths of the work units that were owned with expires_at <
\* now when the sweep began; a path that changes hands in the sweep only
\* because its owner's agent is expired is not in the list.
C17_ReleasedList ==
    [][last'.op = "cleanup_expired" =>
        \A p \in OnePath :
            Count(last'.released, p) =
                (IF Has(work_units, p) /\ ClaimExpired(Get(work_units, p)) THEN 1 ELSE 0)
    ]_vars

\* C17 failing case: a sweep has returned the empty list and left a work unit
\* owned whose expires_at lies before now
C17_Witness ==
    /\ last.op = "cleanup_expired"
    /\ last.released = <<>>
    /\ Has(work_units, "/p")
    /\ ClaimExpired(Get(work_units, "/p"))

-----------------------------------------------------------------------------
(* Threads: the request handlers run in the server's thread pool and the
   reaper in the event loop, so registry calls overlap.  A call is cut where
   another thread could run if nothing stopped it: at `with self._lock`,
   between the two halves of the method's body, and, for the claim route,
   between the return of registry.claim and the reads of
   work_unit_to_response.  The clock stands still while a call is under way:
   a call takes microseconds and the TTLs are whole seconds. *)

\* a lock that admits everybody
RLock_admits_all(lk, t) == TRUE

\* threading.RLock: free, or held by the thread that asks
RLock(lk, t) == lk = None \/ lk = Some(t)

\* the four cases of claim, after the auto-registration
ClaimCases(ags, wus, agent_id, path, work_unit_type, ttl_seconds) ==
    LET ttl == EffectiveTtl(ttl_seconds)
        i == WuIndex(wus, path)
    IN
    IF i = 0 THEN ClaimCreate(ags, wus, agent_id, path, work_unit_type, ttl)
    ELSE IF wus[i].owner_agent_id = Some(agent_id) THEN ClaimRefresh(ags, wus, i, ttl)
    ELSE IF is_in_queue(wus[i], agent_id) THEN ClaimQueued(ags, wus, i, agent_id)
    ELSE ClaimEnqueue(ags, wus, i, agent_id, path)

\* the operations the handlers call
HandlerOps == {"claim", "release"}

\* the agent whose requests a handler thread serves
AgentOf(t) == IF t = "h1" THEN <<"s1">> ELSE <<"s2">>

\* thread t calls a registry method and arrives at `with self._lock`; the
\* reaper has read `now` by then
Enter(t, op, agent_id, path) ==
    /\ calls[t].pc \in {"idle", "responded"}
    /\ calls' = [calls EXCEPT ![t] =
                    [NoCall EXCEPT !.pc = "enter", !.op = op,
                                   !.agent_id = agent_id, !.path = path]]
    /\ UNCHANGED <<agents, work_units, events, last, lock, delivered, server>>

\* thread t takes the lock and runs the first half of the body: the
\* auto-registration of claim, the whole of release, the first loop of
\* cleanup_expired
Acquire(t) ==
    LET c == calls[t]
        r == release(work_units, c.agent_id, c.path)
        w == CleanupWorkUnits(work_units, <<>>, <<>>, 1)
        held == [c EXCEPT !.pc = "mid", !.pre_agents = agents,
                          !.pre_work_units = work_units]
    IN
    /\ c.pc = "enter"
    /\ RLock(lock, t)
    /\ lock' = Some(t)
    /\ CASE c.op = "claim" ->
              /\ agents' = AutoRegister(agents, c.agent_id)
              /\ work_units' = work_units
              /\ events' = <<>>
              /\ calls' = [calls EXCEPT ![t] = held]
         [] c.op = "release" ->
              /\ agents' = agents
              /\ work_units' = r.work_units
              /\ events' = r.events
              /\ calls' = [calls EXCEPT ![t] = [held EXCEPT !.ret = r.ret]]
         [] c.op = "cleanup_expired" ->
              /\ agents' = agents
              /\ work_units' = w.work_units
              /\ events' = w.events
              /\ calls' = [calls EXCEPT ![t] = [held EXCEPT !.released = w.released]]
    /\ UNCHANGED <<last, delivered, server>>

\* thread t runs the second half of the body, leaves the `with` block and
\* returns: the cases of claim, the return of release, the second loop of
\* cleanup_expired
Finish(t) ==
    LET c == calls[t]
        r == ClaimCases(agents, work_units, c.agent_id, c.path, "file", None)
        a == CleanupAgents(agents, work_units, events, AgentKeys(agents), 1)
    IN
    /\ c.pc = "mid"
    /\ lock' = None
    /\ CASE c.op = "claim" ->
              /\ agents' = r.agents
              /\ work_units' = r.work_units
              /\ events' = events \o r.events
              /\ last' = Op("claim", c.agent_id, c.path, r.result.success, r.result, <<>>)
              /\ calls' = [calls EXCEPT ![t] =
                              [c EXCEPT !.pc = "respond", !.pre_agents = <<>>,
                                        !.pre_work_units = <<>>,
                                        !.result = r.result,
                                        !.ret = r.result.success,
                                        !.effect = Some(Get(r.work_units, c.path))]]
         [] c.op = "release" ->
              /\ UNCHANGED <<agents, work_units, events>>
              /\ last' = Op("release", c.agent_id, c.path, c.ret, NoResult, <<>>)
              /\ calls' = [calls EXCEPT ![t] = NoCall]
         [] c.op = "cleanup_expired" ->
              /\ agents' = a.agents
              /\ work_units' = a.work_units
              /\ events' = a.events
              /\ last' = Op("cleanup_expired", <<>>, "", TRUE, NoResult, c.released)
              /\ calls' = [calls EXCEPT ![t] = NoCall]
    /\ UNCHANGED <<delivered, server>>

\* work_unit_to_response(result.work_unit), first reads: the claim route holds
\* the registry's own WorkUnit and reads owner_agent_id and claimed_at from it
Respond1(t) ==
    LET c == calls[t]
        wu == Get(work_units, c.path)
    IN
    /\ c.pc = "respond"
    /\ calls' = [calls EXCEPT ![t] =
                    [c EXCEPT !.pc = "respond2",
                              !.response = Some([wu EXCEPT !.queue = <<>>,
                                                           !.expires_at = None])]]
    /\ UNCHANGED <<agents, work_units, events, last, lock, delivered, server>>

\* work_unit_to_response(result.work_unit), last reads: queue and expires_at
Respond2(t) ==
    LET c == calls[t]
        wu == Get(work_units, c.path)
    IN
    /\ c.pc = "respond2"
    /\ calls' = [calls EXCEPT ![t] =
                    [c EXCEPT !.pc = "responded",
                              !.response = Some([c.response[1] EXCEPT
                                                    !.queue = wu.queue,
                                                    !.expires_at = wu.expires_at])]]
    /\ UNCHANGED <<agents, work_units, events, last, lock, delivered, server>>

\* one second passes while no call is under way
TickThreads ==
    /\ \A t \in Threads : calls[t].pc \in {"idle", "responded"}
    /\ Tick

NextThreads ==
    \/ \E t \in Handlers, op \in HandlerOps, p \in OnePath :
          Enter(t, op, AgentOf(t), p)
    \/ Enter(Reaper, "cleanup_expired", <<>>, "")
    \/ \E t \in Threads : Acquire(t)
    \/ \E t \in Threads : Finish(t)
    \/ \E t \in Handlers : Respond1(t)
    \/ \E t \in Handlers : Respond2(t)
    \/ TickThreads

SpecThreads == Init /\ [][NextThreads]_vars

-----------------------------------------------------------------------------
(* C18: atomicity under concurrency *)

\* the call c as one step, taken in the state its thread found when it got
\* the lock
AtomicCall(c) ==
    CASE c.op = "claim" ->
            LET r == claim(c.pre_agents, c.pre_work_units, c.agent_id, c.path,
                           "file", None)
            IN [agents |-> r.agents, work_units |-> r.work_units, events |-> r.events,
                ret |-> r.result.success, result |-> r.result, released |-> <<>>]
      [] c.op = "release" ->
            LET r == release(c.pre_work_units, c.agent_id, c.path)
            IN [agents |-> c.pre_agents, work_units |-> r.work_units, events |-> r.events,
                ret |-> r.ret, result |-> NoResult, released |-> <<>>]
      [] c.op = "cleanup_expired" ->
            LET r == cleanup_expired(c.pre_agents, c.pre_work_units)
            IN [agents |-> r.agents, work_units |-> r.work_units, events |-> r.events,
                ret |-> TRUE, result |-> NoResult, released |-> r.released]

\* the threads that are inside a `with self._lock` block
Inside == {t \in Threads : calls[t].pc = "mid"}

\* C18: whatever the interleaving of the two handlers and the reaper, at most
\* one thread is inside the lock and it is the holder; every call that returns
\* leaves the state, the events and the returned result that the same call
\* gives as one step in the state found when it took the lock, so the calls
\* are as if run one after another in the order of taking the lock; and
\* whenever the lock is free the queues are well formed and ownership is
\* coherent.
C18_Atomic ==
    /\ (lock = None => C5_QueueWellFormed /\ C6_OwnershipCoherent)
    /\ [][/\ \A t \in Inside' : Inside' = {t} /\ lock' = Some(t)
          /\ lock' = None => Inside' = {}
          /\ lock' = None => (C5_QueueWellFormed /\ C6_OwnershipCoherent)'
          /\ \A t \in Threads :
                (calls[t].pc = "mid" /\ calls'[t].pc # "mid") =>
                    LET c == calls[t]
                        s == AtomicCall(c)
                    IN /\ agents' = s.agents
                       /\ work_units' = s.work_units
                       /\ events' = s.events
                       /\ last' = Op(c.op, c.agent_id, c.path, s.ret, s.result, s.released)
                       /\ lock' = None
         ]_vars

\* both handlers wait at the lock while the reaper, inside it, has handed the
\* path of an expired claim on
C18_Witness ==
    /\ calls[Reaper].pc = "mid"
    /\ calls[Reaper].released = <<"/p">>
    /\ lock = Some(Reaper)
    /\ calls["h1"].pc = "enter" /\ calls["h1"].op = "claim"
    /\ calls["h2"].pc = "enter" /\ calls["h2"].op = "release"

-----------------------------------------------------------------------------
(* C19: what the claim response shows of the work unit *)

\* C19: the work unit serialized in a claim response is the work unit as it
\* was when the claim took effect, and it agrees with the response's success,
\* queue_position and owner_agent_id: on success the caller is its owner,
\* otherwise the caller stands in its queue at the position given and its
\* owner is the owner given.
C19_ResponseIsSnapshot ==
    \A t \in Handlers :
        calls[t].pc = "responded" =>
            LET c == calls[t]
                wu == c.response[1]
            IN /\ wu = c.effect[1]
               /\ c.result.success => wu.owner_agent_id = Some(c.agent_id)
               /\ ~c.result.success =>
                     /\ InQueue(wu.queue, c.agent_id)
                     /\ c.result.queue_position = Some(Pos(wu.queue, c.agent_id))
                     /\ c.result.owner_agent_id = wu.owner_agent_id

\* s1 was queued behind s2 at position 1; s2 released before the response was
\* put together, so the response says "queued at 1 behind s2" next to a work
\* unit that s1 owns and whose queue is empty
C19_Witness ==
    LET c == calls["h1"] IN
    /\ c.pc = "responded"
    /\ ~c.result.success
    /\ c.result.queue_position = Some(1)
    /\ c.result.owner_agent_id = Some(<<"s2">>)
    /\ c.effect[1].owner_agent_id = Some(<<"s2">>)
    /\ c.response[1].owner_agent_id = Some(<<"s1">>)
    /\ c.response[1].queue = <<>>

-----------------------------------------------------------------------------
(* Sinks: the callbacks of on_change.  A callback returns or raises; which of
   the registered callbacks raise is an input of the operation. *)

\* the sets of callbacks that raise, by position in the list
SinkFaults == SUBSET (1..Len(Sinks))

\* no callback has been called
NoneDelivered == [k \in 1..Len(Sinks) |-> <<>>]

\* an _emit without the try/except: the first exception leaves the loop
RECURSIVE emit_propagates(_, _, _, _)
emit_propagates(dl, event, raises, k) ==
    IF k > Len(Sinks) THEN [delivered |-> dl, raised |-> FALSE]
    ELSE
    IF k \in raises
    THEN [delivered |-> [dl EXCEPT ![k] = Append(@, [event |-> event, outcome |-> "raised"])],
          raised |-> TRUE]
    ELSE emit_propagates([dl EXCEPT ![k] = Append(@, [event |-> event, outcome |-> "returned"])],
                         event, raises, k + 1)

\* WorkUnitRegistry._emit, from the k-th callback on: each callback is called
\* inside try/except Exception, so the loop goes on after one that raises
RECURSIVE emit(_, _, _, _)
emit(dl, event, raises, k) ==
    IF k > Len(Sinks) THEN [delivered |-> dl, raised |-> FALSE]
    ELSE
    LET outcome == IF k \in raises THEN "raised" ELSE "returned" IN
    emit([dl EXCEPT ![k] = Append(@, [event |-> event, outcome |-> outcome])],
         event, raises, k + 1)

\* the emissions of one operation, from the i-th on, up to the first that
\* lets an exception out; `at` is the number of that emission
RECURSIVE EmitAll(_, _, _, _)
EmitAll(dl, evs, raises, i) ==
    IF i > Len(evs) THEN [delivered |-> dl, raised |-> FALSE, at |-> 0]
    ELSE
    LET e == emit(dl, evs[i], raises, 1) IN
    IF e.raised THEN [delivered |-> e.delivered, raised |-> TRUE, at |-> i]
    ELSE EmitAll(e.delivered, evs, raises, i + 1)

\* what `last` records of a call that an exception left
Raised(op, agent_id, path) ==
    Op(op, agent_id, path, FALSE,
       ClaimResult(FALSE, None, None, <<"raised">>), <<>>)

\* claim with sinks registered; the emission is the last statement before the
\* return, so an exception out of it would leave the mutation made
ClaimSinks(agent_id, path, raises) ==
    LET r == claim(agents, work_units, agent_id, path, "file", None)
        e == EmitAll(NoneDelivered, r.events, raises, 1)
    IN
    /\ agents' = r.agents
    /\ work_units' = r.work_units
    /\ events' = r.events
    /\ delivered' = e.delivered
    /\ last' = IF e.raised THEN Raised("claim", agent_id, path)
               ELSE Op("claim", agent_id, path, r.result.success, r.result, <<>>)
    /\ UNCHANGED <<lock, calls, server>>

\* release with sinks registered
ReleaseSinks(agent_id, path, raises) ==
    LET r == release(work_units, agent_id, path)
        e == EmitAll(NoneDelivered, r.events, raises, 1)
    IN
    /\ work_units' = r.work_units
    /\ events' = r.events
    /\ delivered' = e.delivered
    /\ last' = IF e.raised THEN Raised("release", agent_id, path)
               ELSE Op("release", agent_id, path, r.ret, NoResult, <<>>)
    /\ UNCHANGED <<agents, lock, calls, server>>

\* leave_queue with sinks registered
LeaveQueueSinks(agent_id, path, raises) ==
    LET r == leave_queue(work_units, agent_id, path)
        e == EmitAll(NoneDelivered, r.events, raises, 1)
    IN
    /\ work_units' = r.work_units
    /\ events' = r.events
    /\ delivered' = e.delivered
    /\ last' = IF e.raised THEN Raised("leave_queue", agent_id, path)
               ELSE Op("leave_queue", agent_id, path, r.ret, NoResult, <<>>)
    /\ UNCHANGED <<agents, lock, calls, server>>

\* the work units as remove_agent has left them when _release_internal emits
\* for the first time: the keys before the first one the agent owns have had
\* their queues filtered, that one has been released
AtFirstRelease(wus, agent_id) ==
    LET k == CHOOSE i \in 1..Len(wus) :
                /\ wus[i].owner_agent_id = Some(agent_id)
                /\ \A j \in 1..(i - 1) : wus[j].owner_agent_id # Some(agent_id)
        before == [i \in 1..Len(wus) |->
                     IF i < k
                     THEN [wus[i] EXCEPT !.queue = QueueWithout(wus[i].queue, agent_id)]
                     ELSE wus[i]]
    IN release_internal(before, agent_id, wus[k].path).work_units

\* remove_agent with sinks registered: up to one emission for each work unit
\* the agent owns, then "agent_removed" after the agent is deleted
RemoveAgentSinks(agent_id, raises) ==
    LET r == remove_agent(agents, work_units, agent_id)
        e == EmitAll(NoneDelivered, r.events, raises, 1)
        in_loop == e.raised /\ e.at < Len(r.events)
    IN
    /\ agents' = IF in_loop THEN agents ELSE r.agents
    /\ work_units' = IF in_loop THEN AtFirstRelease(work_units, agent_id)
                     ELSE r.work_units
    /\ events' = IF e.raised THEN SubSeq(r.events, 1, e.at) ELSE r.events
    /\ delivered' = e.delivered
    /\ last' = IF e.raised THEN Raised("remove_agent", agent_id, "")
               ELSE Op("remove_agent", agent_id, "", AgentIndex(agents, agent_id) # 0,
                       NoResult, <<>>)
    /\ UNCHANGED <<lock, calls, server>>

NextSinks ==
    \/ \E a \in TwoAgents, p \in OnePath, raises \in SinkFaults : ClaimSinks(a, p, raises)
    \/ \E a \in TwoAgents, p \in OnePath, raises \in SinkFaults : ReleaseSinks(a, p, raises)
    \/ \E a \in TwoAgents, p \in OnePath, raises \in SinkFaults : LeaveQueueSinks(a, p, raises)
    \/ \E a \in TwoAgents, raises \in SinkFaults : RemoveAgentSinks(a, raises)
    \/ Tick

SpecSinks == Init /\ [][NextSinks]_vars

-----------------------------------------------------------------------------
(* C20: sink failure isolation *)

\* the events a callback was called with
Received(k) == [i \in 1..Len(delivered[k]) |-> delivered[k][i].event]

\* C20: whichever of the registered sinks raise, an operation leaves the
\* agents, the work units and the returned value that it leaves when no sink
\* raises, every sink is called with every event of the operation, in order,
\* and the queues stay well formed and ownership coherent.
C20_SinkIsolation ==
    [][\A a \in TwoAgents, raises \in SinkFaults :
          /\ last'.agent_id = a =>
               /\ \A p \in OnePath :
                    /\ ClaimSinks(a, p, raises) =>
                         LET r == claim(agents, work_units, a, p, "file", None) IN
                         /\ agents' = r.agents /\ work_units' = r.work_units
                         /\ last' = Op("claim", a, p, r.result.success, r.result, <<>>)
                         /\ \A k \in 1..Len(Sinks) : Received(k)' = r.events
                    /\ ReleaseSinks(a, p, raises) =>
                         LET r == release(work_units, a, p) IN
                         /\ agents' = agents /\ work_units' = r.work_units
                         /\ last' = Op("release", a, p, r.ret, NoResult, <<>>)
                         /\ \A k \in 1..Len(Sinks) : Received(k)' = r.events
                    /\ LeaveQueueSinks(a, p, raises) =>
                         LET r == leave_queue(work_units, a, p) IN
                         /\ agents' = agents /\ work_units' = r.work_units
                         /\ last' = Op("leave_queue", a, p, r.ret, NoResult, <<>>)
                         /\ \A k \in 1..Len(Sinks) : Received(k)' = r.events
               /\ RemoveAgentSinks(a, raises) =>
                    LET r == remove_agent(agents, work_units, a) IN
                    /\ agents' = r.agents /\ work_units' = r.work_units
                    /\ last' = Op("remove_agent", a, "", Registered(agents, a),
                                  NoResult, <<>>)
                    /\ \A k \in 1..Len(Sinks) : Received(k)' = r.events
          /\ (C5_QueueWellFormed /\ C6_OwnershipCoherent)'
      ]_vars

\* s1 was removed while it owned /p with s2 queued: the first sink raised on
\* both events, the second was called with both all the same, the agent is
\* gone and s2 owns the path
C20_Witness ==
    /\ last.op = "remove_agent" /\ last.agent_id = <<"s1">> /\ last.ret
    /\ EventNames = <<"work_unit_transferred", "agent_removed">>
    /\ Len(delivered[1]) = 2 /\ Len(delivered[2]) = 2
    /\ \A i \in 1..2 : delivered[1][i].outcome = "raised"
    /\ \A i \in 1..2 : delivered[2][i].outcome = "returned"
    /\ ~Registered(agents, <<"s1">>)
    /\ OwnerOf(work_units, "/p") = Some(<<"s2">>)

-----------------------------------------------------------------------------
(* C21: the events of remove_agent *)

\* two agents claiming, releasing and being removed over two paths, with the
\* reaper and the clock
NextCascade ==
    \/ \E a \in TwoAgents, p \in Paths : Claim(a, p, "file", None)
    \/ \E a \in TwoAgents, p \in Paths : Release(a, p)
    \/ \E a \in TwoAgents : RemoveAgent(a)
    \/ CleanupExpired
    \/ Tick

SpecCascade == Init /\ [][NextCascade]_vars

\* the release events due for the paths that agent a owns, from the k-th work
\* unit on, in the order of the work units
RECURSIVE CascadeEvents(_, _, _)
CascadeEvents(wus, a, k) ==
    IF k > Len(wus) THEN <<>>
    ELSE
    LET wu == wus[k]
        ev == IF wu.owner_agent_id # Some(a) THEN <<>>
              ELSE IF wu.queue # <<>>
              THEN <<[name |-> "work_unit_transferred", path |-> wu.path,
                      new_owner |-> Head(wu.queue)]>>
              ELSE <<[name |-> "work_unit_released", path |-> wu.path]>>
    IN ev \o CascadeEvents(wus, a, k + 1)

\* C21 (SpecCascade): remove_agent(A) of a registered agent emits, for every
\* path A owned, one work_unit_transferred naming the path and the head of its
\* queue when somebody waited and one work_unit_released naming the path when
\* nobody did, and after all of them exactly one agent_removed naming A; for
\* an unknown agent it emits nothing and leaves agents and work units as they
\* were.
C21_RemoveAgentEvents ==
    [][last'.op = "remove_agent" =>
        LET a == last'.agent_id IN
        IF Registered(agents, a)
        THEN events' = CascadeEvents(work_units, a, 1)
                         \o <<[name |-> "agent_removed", agent_id |-> a]>>
        ELSE /\ events' = <<>>
             /\ agents' = agents
             /\ work_units' = work_units
    ]_vars

\* the removed agent owned both paths, one with the other agent waiting: a
\* transfer, a release and then the removal were emitted
C21_Witness ==
    /\ last.op = "remove_agent"
    /\ last.ret
    /\ Len(events) = 3
    /\ {events[1].name, events[2].name} = {"work_unit_transferred", "work_unit_released"}
    /\ events[3] = [name |-> "agent_removed", agent_id |-> last.agent_id]

-----------------------------------------------------------------------------
(* C22: a claim with ttl_seconds = 0 *)

\* C22 (SpecInputs): a claim with ttl_seconds = 0 that grants or refreshes
\* ownership leaves expires_at = now, so that any later sweep releases it.
C22_ZeroTtlExpiresNow ==
    [][\A a \in TwoAgents, p \in OnePath, ty \in AllWorkUnitTypes :
          (/\ last'.op = "claim" /\ last'.agent_id = a /\ last'.path = p
           /\ last'.ret
           /\ Claim(a, p, ty, Some(0)))
          => Get(work_units', p).expires_at = Some(Now)
    ]_vars

\* a claim has just been granted and runs for the default TTL, which is what
\* ttl_seconds = 0 gives as well as ttl_seconds absent
C22_Witness ==
    /\ last.op = "claim"
    /\ last.ret
    /\ last.message = <<"Work unit claimed">>
    /\ Get(work_units, last.path).claimed_at = Some(Now)
    /\ Get(work_units, last.path).expires_at = Some(Now + DefaultTtl)
    /\ Get(work_units, last.path).ttl_seconds = DefaultTtl

-----------------------------------------------------------------------------
(* C23: a claim with a negative ttl_seconds *)

\* a negative ttl_seconds; ClaimRequest.ttl_seconds is any int or null
NegativeTtl == 0 - 1

\* the ttl_seconds argument of claim: absent or negative
SignedTtlInputs == {None, Some(NegativeTtl)}

\* two agents and one path, claimed with and without a negative ttl
NextTtl ==
    \/ \E a \in TwoAgents, p \in OnePath, ttl \in SignedTtlInputs :
            Claim(a, p, "file", ttl)
    \/ \E a \in TwoAgents, p \in OnePath : Release(a, p)
    \/ CleanupExpired
    \/ Tick

SpecTtl == Init /\ [][NextTtl]_vars

\* C23 (SpecTtl): a claim with a negative ttl_seconds is rejected: it does not
\* succeed and leaves the work units as they were, and no work unit ever has
\* an expires_at before its claimed_at.
C23_NegativeTtlRejected ==
    [][/\ \A a \in TwoAgents, p \in OnePath :
            (/\ last'.op = "claim" /\ last'.agent_id = a /\ last'.path = p
             /\ Claim(a, p, "file", Some(NegativeTtl)))
            => (~last'.ret /\ work_units' = work_units)
       /\ \A i \in 1..Len(work_units') :
            (work_units'[i].claimed_at # None /\ work_units'[i].expires_at # None)
            => work_units'[i].expires_at[1] >= work_units'[i].claimed_at[1]
    ]_vars

\* a claim has just been granted whose expires_at lies before its claimed_at
C23_Witness ==
    /\ last.op = "claim"
    /\ last.ret
    /\ OwnerOf(work_units, last.path) = Some(last.agent_id)
    /\ Get(work_units, last.path).ttl_seconds = NegativeTtl
    /\ Get(work_units, last.path).claimed_at = Some(Now)
    /\ Get(work_units, last.path).expires_at = Some(Now + NegativeTtl)

-----------------------------------------------------------------------------
(* C24: a claim with an empty path *)

\* the path argument of claim: ClaimRequest.path is any str, the empty one
\* included
PathsWithEmpty == {"", "/p"}

\* two agents, one path and the empty path
NextEmptyPath ==
    \/ \E a \in TwoAgents, p \in PathsWithEmpty : Claim(a, p, "file", None)
    \/ \E a \in TwoAgents, p \in PathsWithEmpty : Release(a, p)
    \/ \E a \in TwoAgents, p \in PathsWithEmpty : LeaveQueue(a, p)
    \/ \E a \in TwoAgents : RemoveAgent(a)

SpecEmptyPath == Init /\ [][NextEmptyPath]_vars

\* C24 (SpecEmptyPath): no work unit is ever keyed by the empty path: a claim
\* with path "" creates none, so that none is owned or queued on.
C24_EmptyPathRejected == ~Has(work_units, "")

\* the work unit keyed "" exists, s1 owns it and s2 waits for it
C24_Witness ==
    /\ Has(work_units, "")
    /\ OwnerOf(work_units, "") = Some(<<"s1">>)
    /\ QueueOf(work_units, "") = <<(<<"s2">>)>>

-----------------------------------------------------------------------------
(* C25: heartbeat *)

\* the status of POST /agents/{agent_id}/heartbeat, from what the registry
\* returned
HeartbeatStatus(success) == IF ~success THEN 404 ELSE 200

\* C25: heartbeat(A) returns true, with status 200, exactly when A is
\* registered, and then sets A's last_seen to now and nothing else; for an
\* unknown agent it returns false, with status 404, and the agents are as they
\* were; in both cases the work units are as they were and nothing is emitted.
C25_Heartbeat ==
    [][last'.op = "heartbeat" =>
        LET a == last'.agent_id
            i == AgentIndex(agents, a)
        IN
        /\ last'.ret = Registered(agents, a)
        /\ (HeartbeatStatus(last'.ret) = 404) = ~Registered(agents, a)
        /\ Registered(agents, a) =>
              agents' = [agents EXCEPT ![i].last_seen = Now]
        /\ ~Registered(agents, a) => agents' = agents
        /\ work_units' = work_units
        /\ events' = <<>>
    ]_vars

\* a heartbeat has brought the last_seen of an agent that owns a path back to
\* now, while another registered agent's is still in the past
C25_Witness ==
    /\ last.op = "heartbeat"
    /\ last.ret
    /\ LastSeen(agents, last.agent_id) = Now
    /\ \E p \in OnePath : OwnerOf(work_units, p) = Some(last.agent_id)
    /\ \E i \in 1..Len(agents) : agents[i].last_seen < Now

-----------------------------------------------------------------------------
(* The request surface with inputs that validation turns away *)

\* a type check that lets every string through
ValidType_any(ty) == TRUE

\* WorkUnitType(request.type) does not raise ValueError
ValidType(ty) == ty \in AllWorkUnitTypes

\* the type field of a claim request: a member of WorkUnitType and a string
\* that is none
RequestTypes == {"file", "folder"}

\* Python truthiness of an Optional[str] field: None and "" are false
TruthyStr(opt_str) == opt_str # None /\ opt_str[1] # ""

\* raise HTTPException(status_code=400, ...) before the registry is called
Rejected(op, agent_id, path) ==
    /\ UNCHANGED <<agents, work_units>>
    /\ events' = <<>>
    /\ last' = Op(op, agent_id, path, FALSE,
                  ClaimResult(FALSE, None, None, <<"HTTP 400">>), <<>>)
    /\ Atomic

\* POST /work-units/claim, with the parsing of the type
ClaimRequest(agent_id, path, ty, ttl_seconds) ==
    IF ValidType(ty)
    THEN Claim(agent_id, path, ty, ttl_seconds)
    ELSE Rejected("claim", agent_id, path)

\* the agent_type field of a registration request
AgentTypes == {"main", "subagent"}

\* the task_tool_use_id field of a registration request
TaskIds == {None, Some(""), Some("t1")}

\* the parent_agent_id field of a registration request
ParentIds == {None, Some(<<"s1">>)}

\* POST /agents/register, with the check of the subagent fields
RegisterRequest(session_id, agent_type, task_tool_use_id, parent_agent_id) ==
    IF agent_type = "subagent"
    THEN IF ~TruthyStr(task_tool_use_id) \/ ~Truthy(parent_agent_id)
         THEN Rejected("register", session_id, "")
         ELSE RegisterSub(session_id, task_tool_use_id[1], parent_agent_id[1])
    ELSE RegisterMain(session_id)

\* a session and the subagent it spawned
SessionAgents == {<<"s1">>, <<"s1", "t1">>}

NextRequests ==
    \/ \E a \in SessionAgents, p \in OnePath, ty \in RequestTypes :
            ClaimRequest(a, p, ty, None)
    \/ \E ty \in AgentTypes, t \in TaskIds, pa \in ParentIds :
            RegisterRequest(<<"s1">>, ty, t, pa)
    \/ \E a \in SessionAgents, p \in OnePath : Release(a, p)
    \/ \E a \in SessionAgents : RemoveAgent(a)
    \/ Tick

SpecRequests == Init /\ [][NextRequests]_vars

-----------------------------------------------------------------------------
(* C26: rejected requests *)

\* C26 (SpecRequests): a claim whose type is none of file, directory and
\* process is answered with 400 and leaves agents and work units as they
\* were: no work unit, no queue entry, no implicitly registered agent; a
\* subagent registration without task_tool_use_id or without parent_agent_id
\* is answered with 400 and leaves the agents as they were.
C26_RejectedUnchanged ==
    [][/\ \A a \in SessionAgents, p \in OnePath, ty \in RequestTypes \ AllWorkUnitTypes :
            (/\ last'.op = "claim" /\ last'.agent_id = a /\ last'.path = p
             /\ ClaimRequest(a, p, ty, None))
            => /\ last'.message = <<"HTTP 400">>
               /\ agents' = agents
               /\ work_units' = work_units
       /\ \A t \in TaskIds, pa \in ParentIds :
            (/\ last'.op = "register"
             /\ (t \in {None, Some("")} \/ pa = None)
             /\ RegisterRequest(<<"s1">>, "subagent", t, pa))
            => /\ last'.message = <<"HTTP 400">>
               /\ agents' = agents
               /\ work_units' = work_units
    ]_vars

\* a claim of the subagent with type "folder" has been turned away while the
\* session's agent owns the path: the subagent is neither registered nor
\* queued
C26_Witness ==
    /\ last.op = "claim"
    /\ last.agent_id = <<"s1", "t1">>
    /\ last.message = <<"HTTP 400">>
    /\ OwnerOf(work_units, "/p") = Some(<<"s1">>)
    /\ QueueOf(work_units, "/p") = <<>>
    /\ ~Registered(agents, <<"s1", "t1">>)

-----------------------------------------------------------------------------
(* C27: agent identity *)

\* C27 (SpecRequests): every registered agent of kind main has agent_id =
\* session_id and neither task_tool_use_id nor parent_agent_id, and every
\* agent whose agent_id is session_id:task_tool_use_id is of kind subagent and
\* has both, whether register or claim created it.
C27_AgentIdentity ==
    \A i \in 1..Len(agents) :
        LET g == agents[i] IN
        /\ g.agent_type = "main" =>
              /\ g.agent_id = g.session_id
              /\ g.task_tool_use_id = None
              /\ g.parent_agent_id = None
        /\ Len(g.agent_id) = 2 =>
              /\ g.agent_type = "subagent"
              /\ g.task_tool_use_id # None
              /\ g.parent_agent_id # None

\* the subagent claimed before it registered: its registration has been
\* accepted, and its record is still the one claim made, of kind main with
\* the session's id as session_id and no task_tool_use_id
C27_Witness ==
    /\ last.op = "register"
    /\ last.agent_id = <<"s1", "t1">>
    /\ last.message # <<"HTTP 400">>
    /\ Registered(agents, <<"s1", "t1">>)
    /\ LET g == agents[AgentIndex(agents, <<"s1", "t1">>)] IN
          /\ g.agent_type = "main"
          /\ g.session_id = <<"s1">>
          /\ g.task_tool_use_id = None
          /\ g.parent_agent_id = None

-----------------------------------------------------------------------------
(* The server: lifespan and periodic_cleanup.  The cleanup task runs in the
   event loop; it is suspended only at `await asyncio.sleep(30)`, so the sweep
   and the handling of what it raises are one step of the task, and a
   cancellation reaches it only at the sleep. *)

\* a reaper that an exception of the sweep stops
AfterSweep_stops(raised) == IF raised THEN "done" ELSE "sleeping"

\* where the task is after a sweep: `except Exception` prints and the loop
\* goes round, as it does after a sweep that returned
AfterSweep(raised) == "sleeping"

\* a shutdown that does not look at the task
TaskStopped_any(task) == TRUE

\* `await cleanup_task` returns, or raises CancelledError: the task is done
TaskStopped(task) == task = "done"

\* what a sweep may do: return, raise before it has changed anything, or raise
\* between its two loops
SweepOutcomes == {"returns", "raises at once", "raises after the work units"}

\* lifespan, startup: asyncio.create_task(periodic_cleanup())
Startup ==
    /\ server.lifespan = "created"
    /\ server' = [server EXCEPT !.lifespan = "running", !.task = "scheduled"]
    /\ UNCHANGED <<agents, work_units, events, last, lock, calls, delivered>>

\* the task runs for the first time, up to the sleep
TaskRuns ==
    /\ server.task = "scheduled"
    /\ ~server.cancel
    /\ server' = [server EXCEPT !.task = "sleeping"]
    /\ UNCHANGED <<agents, work_units, events, last, lock, calls, delivered>>

\* the sleep is over: one turn of the loop of periodic_cleanup, from the
\* return of asyncio.sleep to the next call of it
Sweep(outcome) ==
    LET r == cleanup_expired(agents, work_units)
        w == CleanupWorkUnits(work_units, <<>>, <<>>, 1)
    IN
    /\ server.task = "sleeping"
    /\ ~server.cancel
    /\ CASE outcome = "returns" ->
              /\ agents' = r.agents
              /\ work_units' = r.work_units
              /\ events' = r.events
              /\ last' = Op("cleanup_expired", <<>>, "", TRUE, NoResult, r.released)
         [] outcome = "raises at once" ->
              /\ UNCHANGED <<agents, work_units>>
              /\ events' = <<>>
              /\ last' = Raised("cleanup_expired", <<>>, "")
         [] outcome = "raises after the work units" ->
              /\ agents' = agents
              /\ work_units' = w.work_units
              /\ events' = w.events
              /\ last' = Raised("cleanup_expired", <<>>, "")
    /\ server' = [server EXCEPT !.task = AfterSweep(outcome # "returns"),
                                !.sweeps = 1 - @]
    /\ UNCHANGED <<lock, calls, delivered>>

\* lifespan, shutdown: cleanup_task.cancel()
Shutdown ==
    /\ server.lifespan = "running"
    /\ server' = [server EXCEPT !.lifespan = "awaiting", !.cancel = TRUE]
    /\ UNCHANGED <<agents, work_units, events, last, lock, calls, delivered>>

\* CancelledError is thrown into the task where it is suspended: at the sleep,
\* where `except asyncio.CancelledError: break` ends the loop, or before its
\* first run
CancelDelivered ==
    /\ server.cancel
    /\ server.task \in {"scheduled", "sleeping"}
    /\ server' = [server EXCEPT !.task = "done", !.cancel = FALSE]
    /\ UNCHANGED <<agents, work_units, events, last, lock, calls, delivered>>

\* lifespan, shutdown: `await cleanup_task` is over
ShutdownDone ==
    /\ server.lifespan = "awaiting"
    /\ TaskStopped(server.task)
    /\ server' = [server EXCEPT !.lifespan = "down"]
    /\ UNCHANGED <<agents, work_units, events, last, lock, calls, delivered>>

\* requests are served between startup and shutdown
Serving == server.lifespan = "running"

NextReaper ==
    \/ Startup
    \/ TaskRuns
    \/ \E outcome \in SweepOutcomes : Sweep(outcome)
    \/ Shutdown
    \/ CancelDelivered
    \/ ShutdownDone
    \/ Serving /\ \E a \in TwoAgents, p \in OnePath : Claim(a, p, "file", None)
    \/ Serving /\ \E a \in TwoAgents, p \in OnePath : Release(a, p)
    \/ Tick

\* the event loop runs whatever is ready: the task when its sleep is over or
\* a cancellation waits for it, lifespan when the task it awaits is done
SpecReaper ==
    /\ Init /\ [][NextReaper]_vars
    /\ WF_vars(TaskRuns)
    /\ WF_vars(\E outcome \in SweepOutcomes : Sweep(outcome))
    /\ WF_vars(CancelDelivered)
    /\ WF_vars(ShutdownDone)

-----------------------------------------------------------------------------
(* C28: the reaper survives its own exceptions *)

\* the last step was a sweep that raised
SweepRaised == last.op = "cleanup_expired" /\ last.message = <<"raised">>

\* C28 (SpecReaper): after a sweep that raised the task is at its sleep again,
\* and unless shutdown is asked for another sweep follows.
C28_ReaperSurvives ==
    /\ [][(server'.sweeps # server.sweeps /\ SweepRaised') =>
              server'.task = "sleeping"]_vars
    /\ \A n \in {0, 1} :
          (SweepRaised /\ server.sweeps = n /\ server.lifespan = "running")
             ~> (server.sweeps # n \/ server.lifespan # "running")

\* a sweep has raised between its loops, having handed an expired claim on to
\* the agent that waited, and the task is at its sleep
C28_Witness ==
    /\ SweepRaised
    /\ EventNames = <<"work_unit_transferred">>
    /\ server.task = "sleeping"
    /\ server.lifespan = "running"

-----------------------------------------------------------------------------
(* C29: cancellation of the reaper *)

\* C29 (SpecReaper): once cancellation is asked for, the task starts no sweep
\* and comes to its end, where it stays; a sweep that returns is the whole of
\* cleanup_expired, never a part of it, and runs with no cancellation
\* pending; lifespan is down only when the task has stopped.
C29_ReaperCancellation ==
    /\ [][/\ (server.cancel \/ server.task = "done") =>
                server'.sweeps = server.sweeps
          /\ server.task = "done" => server'.task = "done"
          /\ (server'.sweeps # server.sweeps /\ last'.ret) =>
                LET r == cleanup_expired(agents, work_units) IN
                /\ ~server.cancel /\ ~server'.cancel
                /\ agents' = r.agents
                /\ work_units' = r.work_units
                /\ last'.released = r.released
          /\ server'.lifespan = "down" => server'.task = "done"
         ]_vars
    /\ server.cancel ~> (server.task = "done")
    /\ (server.lifespan = "awaiting") ~> (server.lifespan = "down")

\* the server is down and the task stopped while s1 holds an expired claim
\* with s2 waiting: the sweep that would have handed it on was never started
C29_Witness ==
    /\ server.lifespan = "down"
    /\ server.task = "done"
    /\ ~server.cancel
    /\ OwnerOf(work_units, "/p") = Some(<<"s1">>)
    /\ QueueOf(work_units, "/p") = <<(<<"s2">>)>>
    /\ Get(work_units, "/p").expires_at[1] < Now

-----------------------------------------------------------------------------
(* The pre-tool guard, hooks/pre_tool_guard.py.  A command is the sequence of
   its words, and `kw in command_lower` is taken word by word. *)

WRITE_TOOLS == {"Edit", "Write"}

\* str.lower, on the words of the model
Lower(word) == IF word = "PyTest" THEN "pytest" ELSE word

\* any(kw in command_lower for kw in kws)
AnyIn(kws, command) == \E i \in 1..Len(command) : Lower(command[i]) \in kws

\* get_agent_id: the session_id, "unknown" when the hook input has none
get_agent_id(hook_input) ==
    IF hook_input.session_id = None THEN <<"unknown">> ELSE hook_input.session_id[1]

\* get_target_path
get_target_path(hook_input) ==
    IF hook_input.tool_name \in WRITE_TOOLS THEN hook_input.file_path ELSE None

\* classify_bash_command
classify_bash_command(command) ==
    IF AnyIn({"pytest", "npm test", "cargo test", "go test", "jest", "mocha"}, command)
    THEN Some("proc:test")
    ELSE IF AnyIn({"npm run build", "cargo build", "go build", "make", "webpack",
                   "vite build"}, command)
    THEN Some("proc:build")
    ELSE IF AnyIn({"migrate"}, command) THEN Some("proc:migrate")
    ELSE IF AnyIn({"deploy"}, command) THEN Some("proc:deploy")
    ELSE IF AnyIn({"npm install", "pip install", "cargo install"}, command)
    THEN Some("proc:install")
    ELSE None

\* get_process_resource
get_process_resource(hook_input) ==
    IF hook_input.tool_name = "Bash"
    THEN classify_bash_command(hook_input.command)
    ELSE None

\* a guard that blocks the tool when it has no answer
Decide_fail_closed(result) ==
    IF result.error THEN "block"
    ELSE IF result.success THEN "allow" ELSE "block"

\* the end of main: allow on an error dict, allow on success, block otherwise
Decide(result) ==
    IF result.error THEN "allow"
    ELSE IF result.success THEN "allow" ELSE "block"

\* what becomes of the request of claim_work_unit: the daemon answers 200, it
\* answers with an HTTP error, it cannot be reached, or it serves the request
\* and the answer does not arrive within the timeout of 5 s
DaemonOutcomes == {"answers", "http error", "unreachable", "timeout"}

\* the hook inputs of the model: tool_input carries file_path and command,
\* whichever the tool reads
HookInputs ==
    [session_id : {Some(<<"s1">>), Some(<<"s2">>)},
     tool_name : {"Write", "Bash", "Read"},
     file_path : {None, Some("/p")},
     command : {<<"ls">>, <<"PyTest", "deploy">>}]

\* main, with what the daemon does with the request: the decision, the
\* resource claimed and the registry as the daemon leaves it
main(ags, wus, hook_input, daemon) ==
    LET target_path == get_target_path(hook_input)
        process_resource == get_process_resource(hook_input)
        agent_id == get_agent_id(hook_input)
        resource_path == IF TruthyStr(target_path) THEN target_path[1]
                         ELSE process_resource[1]
        resource_type == IF TruthyStr(target_path) THEN "file" ELSE "process"
        r == claim(ags, wus, agent_id, resource_path, resource_type, None)
        served == daemon \in {"answers", "timeout"}
        result == [error |-> daemon # "answers", success |-> r.result.success]
    IN
    IF ~TruthyStr(target_path) /\ ~TruthyStr(process_resource)
    THEN [agents |-> ags, work_units |-> wus, events |-> <<>>,
          agent_id |-> agent_id, resource_path |-> "", decision |-> "allow"]
    ELSE [agents |-> IF served THEN r.agents ELSE ags,
          work_units |-> IF served THEN r.work_units ELSE wus,
          events |-> IF served THEN r.events ELSE <<>>,
          agent_id |-> agent_id, resource_path |-> resource_path,
          decision |-> Decide(result)]

\* one run of the hook before a tool
PreToolUse(hook_input, daemon) ==
    LET m == main(agents, work_units, hook_input, daemon) IN
    /\ agents' = m.agents
    /\ work_units' = m.work_units
    /\ events' = m.events
    /\ last' = Op("pre_tool_use", m.agent_id, m.resource_path, m.decision = "allow",
                  ClaimResult(FALSE, None, None, <<m.decision>>), <<>>)
    /\ Atomic

\* the resources the hook inputs of the model lead to
GuardPaths == {"/p", "proc:test"}

NextGuard ==
    \/ \E h \in HookInputs, d \in DaemonOutcomes : PreToolUse(h, d)
    \/ \E a \in TwoAgents, p \in GuardPaths : Release(a, p)

SpecGuard == Init /\ [][NextGuard]_vars

-----------------------------------------------------------------------------
(* C30: the decision of the pre-tool guard *)

\* C30 (SpecGuard): in whatever state the registry is and whatever the hook
\* is run with, the guard blocks the tool exactly when a resource needed
\* claiming, the daemon answered and its answer was success = false, which is
\* when the registry queued the agent instead of making it the owner; in
\* every other case, no resource, success = true, HTTP error, daemon
\* unreachable, no answer in time, it allows the tool.  For a write tool with
\* a file path the resource claimed is that path, as a file, whatever the
\* command.
C30_GuardDecision ==
    \A h \in HookInputs, d \in DaemonOutcomes :
        LET m == main(agents, work_units, h, d)
            write == h.tool_name \in {"Edit", "Write"} /\ h.file_path # None
            bash == h.tool_name = "Bash" /\ h.command # <<"ls">>
            path == IF write THEN h.file_path[1] ELSE "proc:test"
            type == IF write THEN "file" ELSE "process"
            r == claim(agents, work_units, h.session_id[1], path, type, None)
            blocked == (write \/ bash) /\ d = "answers" /\ ~r.result.success
        IN /\ m.decision = IF blocked THEN "block" ELSE "allow"
           /\ blocked => /\ OwnerOf(m.work_units, path) # Some(h.session_id[1])
                         /\ InQueue(QueueOf(m.work_units, path), h.session_id[1])
           /\ (write \/ bash) =>
                 /\ m.resource_path = path
                 /\ IF d \in {"answers", "timeout"}
                    THEN m.work_units = r.work_units /\ m.agents = r.agents
                    ELSE m.work_units = work_units /\ m.agents = agents
           /\ ~(write \/ bash) => (m.work_units = work_units /\ m.agents = agents)

\* s2's Bash tool has been blocked: s1 owns proc:test and s2 is queued for it
C30_Witness ==
    /\ last.op = "pre_tool_use"
    /\ last.agent_id = <<"s2">>
    /\ last.path = "proc:test"
    /\ last.message = <<"block">>
    /\ ~last.ret
    /\ OwnerOf(work_units, "proc:test") = Some(<<"s1">>)
    /\ QueueOf(work_units, "proc:test") = <<(<<"s2">>)>>

-----------------------------------------------------------------------------
(* C31: implicit registration *)

\* agent records that differ at most in last_seen
SameButLastSeen(g, h) == [g EXCEPT !.last_seen = h.last_seen] = h

\* C31 (SpecRequests): a claim that reaches the registry from an agent_id that
\* is not registered adds, whether the claim is granted or queued, one agent
\* with that agent_id, session_id = the part of the agent_id before the first
\* ':', the default TTL and last_seen = now, and leaves the other agents as
\* they were; a claim by a registered agent adds no agent and changes no
\* attribute of an agent other than last_seen.
C31_ImplicitRegistration ==
    [][(last'.op = "claim" /\ last'.message # <<"HTTP 400">>) =>
        LET a == last'.agent_id IN
        IF ~Registered(agents, a)
        THEN /\ Len(agents') = Len(agents) + 1
             /\ SubSeq(agents', 1, Len(agents)) = agents
             /\ LET g == agents'[Len(agents')] IN
                   /\ g.agent_id = a
                   /\ g.session_id = <<Head(a)>>
                   /\ g.ttl_seconds = AgentTtl
                   /\ g.last_seen = Now
        ELSE /\ Len(agents') = Len(agents)
             /\ \A i \in 1..Len(agents) : SameButLastSeen(agents[i], agents'[i])
    ]_vars

\* the subagent, not registered before, has claimed the path its session's
\* agent owns: it is queued, and registered with the session's id
C31_Witness ==
    /\ last.op = "claim"
    /\ last.agent_id = <<"s1", "t1">>
    /\ last.ret = FALSE
    /\ last.queue_position = Some(1)
    /\ events # <<>>
    /\ Registered(agents, <<"s1", "t1">>)
    /\ agents[Len(agents)].agent_id = <<"s1", "t1">>
    /\ agents[Len(agents)].session_id = <<"s1">>
    /\ agents[Len(agents)].last_seen = Now

-----------------------------------------------------------------------------
(* C32: the events of each operation *)

\* three agents registering, claiming, releasing, leaving the queue of one
\* path and being removed, as time passes
NextEvents ==
    \/ \E s \in SessionIds : RegisterMain(s)
    \/ \E a \in AgentIds, p \in OnePath : Claim(a, p, "file", None)
    \/ \E a \in AgentIds, p \in OnePath : Release(a, p)
    \/ \E a \in AgentIds, p \in OnePath : LeaveQueue(a, p)
    \/ \E a \in AgentIds : RemoveAgent(a)
    \/ Tick

SpecEvents == Init /\ [][NextEvents]_vars

\* C32 (SpecEvents): the events an operation emits are exactly these, each
\* carrying the state the operation leaves: a claim that creates the work
\* unit emits work_unit_claimed with the new work unit; a claim that appends
\* to the queue emits agent_queued with position = the new length of the
\* queue; a refresh and a claim by an agent already queued emit nothing; a
\* successful release emits work_unit_transferred with the new owner when the
\* queue was not empty and work_unit_released when it was, a failed release
\* nothing; a successful leave_queue emits agent_left_queue, a failed one
\* nothing; a first registration emits agent_registered with the agent, a
\* re-registration nothing.
C32_EventExactness ==
    [][LET a == last'.agent_id
           p == last'.path
       IN
       /\ last'.op = "claim" =>
            IF ~Has(work_units, p)
            THEN events' = <<[name |-> "work_unit_claimed",
                              work_unit |-> Get(work_units', p)]>>
            ELSE IF Len(QueueOf(work_units', p)) > Len(QueueOf(work_units, p))
            THEN events' = <<[name |-> "agent_queued", path |-> p, agent_id |-> a,
                              position |-> Len(QueueOf(work_units', p))]>>
            ELSE events' = <<>>
       /\ last'.op = "release" =>
            IF ~last'.ret THEN events' = <<>>
            ELSE IF QueueOf(work_units, p) # <<>>
            THEN events' = <<[name |-> "work_unit_transferred", path |-> p,
                              new_owner |-> OwnerOf(work_units', p)[1]]>>
            ELSE events' = <<[name |-> "work_unit_released", path |-> p]>>
       /\ last'.op = "leave_queue" =>
            IF last'.ret
            THEN events' = <<[name |-> "agent_left_queue", path |-> p, agent_id |-> a]>>
            ELSE events' = <<>>
       /\ last'.op = "register" =>
            IF ~Registered(agents, a)
            THEN events' = <<[name |-> "agent_registered",
                              agent |-> agents'[AgentIndex(agents', a)]]>>
            ELSE events' = <<>>
    ]_vars

\* the third claimant of an owned path has been queued behind the second:
\* one agent_queued event with position 2
C32_Witness ==
    /\ last.op = "claim"
    /\ Len(QueueOf(work_units, "/p")) = 2
    /\ OwnerOf(work_units, "/p") # None
    /\ events = <<[name |-> "agent_queued", path |-> "/p",
                   agent_id |-> last.agent_id, position |-> 2]>>

-----------------------------------------------------------------------------
(* C33: no stealing *)

\* the owner of p changes from a only by a's release of p, by a sweep when
\* the claim on p or the agent a has expired, or by the removal of a
OwnerChangesLawfully ==
    \A a \in AgentIds, p \in OnePath :
        (OwnerOf(work_units, p) = Some(a) /\ OwnerOf(work_units', p) # Some(a)) =>
            \/ last'.op = "release" /\ last'.agent_id = a /\ last'.path = p
            \/ /\ last'.op = "cleanup_expired"
               /\ \/ Get(work_units, p).expires_at[1] < Now
                  \/ Expired(agents, a)
            \/ last'.op = "remove_agent" /\ last'.agent_id = a

\* a sweep that follows a successful claim or release of an agent at once, no
\* time having passed, leaves that agent registered
ActiveAgentKept ==
    (/\ last.op \in {"claim", "release"}
     /\ last.ret
     /\ Registered(agents, last.agent_id)
     /\ last'.op = "cleanup_expired")
    => Registered(agents', last.agent_id)

\* C33 (Spec): the owner of a path changes only through a release by that
\* owner, a sweep when the claim has expired, or the removal of the owner
\* (explicit, or by a sweep when the agent has expired); and an agent that has
\* just claimed or released with success is not removed by the reaper.
C33_NoStealing == [][OwnerChangesLawfully /\ ActiveAgentKept]_vars

\* the first half of C33 alone
C33_OwnerChangesLawfully == [][OwnerChangesLawfully]_vars

\* a sweep has removed an agent and handed the path it owned to the agent
\* queued behind it
C33_Witness ==
    /\ last.op = "cleanup_expired"
    /\ \E a \in AgentIds :
          /\ ~Registered(agents, a)
          /\ \E i \in 1..Len(events) :
                events[i] = [name |-> "agent_removed", agent_id |-> a]
    /\ \E i \in 1..Len(events) : events[i].name = "work_unit_transferred"

-----------------------------------------------------------------------------
(* C34: no queue without an owner *)

\* C34 (SpecCascade): in every state, a work unit whose owner_agent_id is null
\* has an empty queue.
C34_UnownedHasNoQueue ==
    \A i \in 1..Len(work_units) :
        work_units[i].owner_agent_id = None => work_units[i].queue = <<>>

\* s2 has claimed /p after s1 released it: the record has no owner, and s2
\* waits in its queue at position 1
C34_Witness ==
    /\ last.op = "claim"
    /\ last.agent_id = <<"s2">>
    /\ last.path = "/p"
    /\ last.ret = FALSE
    /\ OwnerOf(work_units, "/p") = None
    /\ QueueOf(work_units, "/p") = <<<<"s2">>>>

-----------------------------------------------------------------------------
(* C35: owners and queued agents are registered *)

\* agent a owns a work unit or waits in a queue
HoldsOrWaits(wus, a) ==
    \E i \in 1..Len(wus) : wus[i].owner_agent_id = Some(a) \/ InQueue(wus[i].queue, a)

\* C35 (SpecCascade): in every state, each owner and each agent in a queue is
\* a registered agent; and after remove_agent, also when it returned at once
\* because the agent was unknown, that agent owns nothing and waits nowhere.
C35_HoldersRegistered ==
    /\ \A i \in 1..Len(work_units) :
          /\ work_units[i].owner_agent_id # None =>
                Registered(agents, work_units[i].owner_agent_id[1])
          /\ \A j \in 1..Len(work_units[i].queue) :
                Registered(agents, work_units[i].queue[j])
    /\ last.op = "remove_agent" => ~HoldsOrWaits(work_units, last.agent_id)

\* remove_agent has been called for s1, which is unknown, while s2 owns a
\* path: nothing of s1 is left in the work units
C35_Witness ==
    /\ last.op = "remove_agent"
    /\ last.agent_id = <<"s1">>
    /\ ~last.ret
    /\ ~Registered(agents, <<"s1">>)
    /\ Has(work_units, "/p") /\ Has(work_units, "proc:test")
    /\ OwnerOf(work_units, "/p") = Some(<<"s2">>)

-----------------------------------------------------------------------------
(* C36: what a sweep leaves behind *)

\* a work unit that is owned although its claim has expired
OwnedExpired(wu) ==
    /\ wu.owner_agent_id # None
    /\ wu.expires_at # None
    /\ wu.expires_at[1] < Now

\* C36 (SpecSweep): when cleanup_expired has returned, no work unit is owned
\* with expires_at < now and no registered agent has now - last_seen >
\* ttl_seconds.
C36_SweepLeavesNothingExpired ==
    last.op = "cleanup_expired" =>
        /\ \A i \in 1..Len(work_units) : ~OwnedExpired(work_units[i])
        /\ \A i \in 1..Len(agents) : ~is_expired(agents[i])

\* C36 for the owners whose agent_id is not the empty string
C36_ExceptEmptyOwner ==
    last.op = "cleanup_expired" =>
        /\ \A i \in 1..Len(work_units) :
              OwnedExpired(work_units[i]) => work_units[i].owner_agent_id = Some(<<"">>)
        /\ \A i \in 1..Len(agents) : ~is_expired(agents[i])

\* the sweep has returned and has released nothing: the agent with the empty
\* id, seen just now, still owns /p, whose claim expired a second ago
C36_Witness ==
    /\ last.op = "cleanup_expired"
    /\ last.released = <<>>
    /\ OwnerOf(work_units, "/p") = Some(<<"">>)
    /\ OwnedExpired(Get(work_units, "/p"))
    /\ Registered(agents, <<"">>)
    /\ ~Expired(agents, <<"">>)

-----------------------------------------------------------------------------
(* C37: work-unit records are kept, with their identity *)

\* C37 (SpecInputs): no step removes a work-unit record or changes its id,
\* path, type or ttl_seconds, whatever type and ttl_seconds a later claim
\* names; and when a release hands the path to the head of the queue, the new
\* owner's expires_at is now + the ttl_seconds the record was created with.
C37_RecordIdentity ==
    [][/\ Len(work_units') >= Len(work_units)
       /\ \A i \in 1..Len(work_units) :
             /\ work_units'[i].id = work_units[i].id
             /\ work_units'[i].path = work_units[i].path
             /\ work_units'[i].type = work_units[i].type
             /\ work_units'[i].ttl_seconds = work_units[i].ttl_seconds
             /\ (/\ last'.op \in {"release", "cleanup_expired", "remove_agent"}
                 /\ work_units'[i].owner_agent_id # None
                 /\ work_units'[i].owner_agent_id # work_units[i].owner_agent_id)
                => work_units'[i].expires_at = Some(Now + work_units[i].ttl_seconds)
    ]_vars

\* the owner of a record created with the default ttl and type "file" has
\* refreshed it with type "process" and a longer ttl: expires_at follows the
\* caller's ttl, the record keeps its type and its ttl_seconds
C37_Witness ==
    /\ last.op = "claim"
    /\ last.message = <<"Ownership refreshed">>
    /\ Has(work_units, "/p")
    /\ Get(work_units, "/p").type = "file"
    /\ Get(work_units, "/p").ttl_seconds = DefaultTtl
    /\ Get(work_units, "/p").expires_at = Some(Now + DefaultTtl + 1)

-----------------------------------------------------------------------------
(* C38: path independence *)

\* two agents claiming, releasing and leaving the queues of two paths, with
\* removal, the reaper and the clock
NextIndependence ==
    \/ \E a \in TwoAgents, p \in Paths : Claim(a, p, "file", None)
    \/ \E a \in TwoAgents, p \in Paths : Release(a, p)
    \/ \E a \in TwoAgents, p \in Paths : LeaveQueue(a, p)
    \/ \E a \in TwoAgents : RemoveAgent(a)
    \/ CleanupExpired
    \/ Tick

SpecIndependence == Init /\ [][NextIndependence]_vars

\* C38 (SpecIndependence): a claim, a release or a leave_queue on path p
\* leaves the work unit of every other path as it was (or absent as it was),
\* and leaves every agent other than the caller as it was, adding no agent
\* but the caller.
C38_PathIndependence ==
    [][last'.op \in {"claim", "release", "leave_queue"} =>
        LET a == last'.agent_id
            p == last'.path
        IN
        /\ \A q \in Paths \ {p} :
              /\ Has(work_units', q) = Has(work_units, q)
              /\ Has(work_units, q) => Get(work_units', q) = Get(work_units, q)
        /\ Len(agents') >= Len(agents)
        /\ \A i \in 1..Len(agents) :
              agents[i].agent_id # a => agents'[i] = agents[i]
        /\ \A i \in (Len(agents) + 1)..Len(agents') : agents'[i].agent_id = a
    ]_vars

\* s1, owner of both paths with s2 queued on proc:test, has released /p:
\* proc:test is still s1's, with s2 in its queue
C38_Witness ==
    /\ last.op = "release"
    /\ last.agent_id = <<"s1">>
    /\ last.path = "/p"
    /\ last.ret
    /\ OwnerOf(work_units, "/p") = None
    /\ OwnerOf(work_units, "proc:test") = Some(<<"s1">>)
    /\ QueueOf(work_units, "proc:test") = <<<<"s2">>>>

-----------------------------------------------------------------------------
(* C39: GET /work-units/state *)

\* the registry states a request may meet between its call of get_state and
\* its return, beyond the first
MaxMeanwhile == 2

\* work_unit_to_response: the fields of the work unit, the queue entries
\* numbered from 1
work_unit_to_response(wu) ==
    [wu EXCEPT !.queue = [i \in 1..Len(wu.queue) |->
                             [agent_id |-> wu.queue[i], position |-> i]]]

\* the response that shows one registry state
StateResponse(ags, wus) ==
    [agents |-> ags,
     work_units |-> [i \in 1..Len(wus) |-> work_unit_to_response(wus[i])]]

\* the thread that serves GET /work-units/state
StateReader == "h1"

\* the route calls registry.get_state(), which builds the dicts of all agents
\* and all work units under the lock; `seen` collects the registry states from
\* here to the return of the route
GetState(t) ==
    /\ calls[t].pc \in {"idle", "responded"}
    /\ calls' = [calls EXCEPT ![t] =
                    [pc |-> "state", op |-> "get_state", agent_id |-> <<>>, path |-> "",
                     pre_agents |-> agents, pre_work_units |-> work_units,
                     result |-> NoResult, ret |-> TRUE, released |-> <<>>,
                     effect |-> None,
                     response |-> Some([agents |-> agents, work_units |-> <<>>]),
                     seen |-> {<<agents, work_units>>}]]
    /\ UNCHANGED <<agents, work_units, events, last, lock, delivered, server>>

\* the next element of the list comprehension of the route:
\* work_unit_to_response(registry.get_work_unit(wu["path"])), which reads the
\* registry's work unit as it is now
ReadWorkUnit(t) ==
    LET c == calls[t]
        k == Len(c.response[1].work_units) + 1
    IN
    /\ c.pc = "state"
    /\ k <= Len(c.pre_work_units)
    /\ calls' = [calls EXCEPT ![t].response =
                    Some([c.response[1] EXCEPT !.work_units =
                            Append(@, work_unit_to_response(
                                         Get(work_units, c.pre_work_units[k].path)))])]
    /\ UNCHANGED <<agents, work_units, events, last, lock, delivered, server>>

\* the route returns the StateResponse
ReturnState(t) ==
    LET c == calls[t] IN
    /\ c.pc = "state"
    /\ Len(c.response[1].work_units) = Len(c.pre_work_units)
    /\ calls' = [calls EXCEPT ![t].pc = "responded"]
    /\ last' = Op("get_state", <<>>, "", TRUE, NoResult, <<>>)
    /\ UNCHANGED <<agents, work_units, events, lock, delivered, server>>

\* another request may run while no more than MaxMeanwhile states have
\* followed the one get_state saw
MayRun == \A t \in Threads :
             calls[t].pc = "state" => Cardinality(calls[t].seen) <= MaxMeanwhile

\* the requests under way see the registry pass through the state (ags, wus)
Observed(ags, wus) ==
    [t \in Threads |->
        IF calls[t].pc = "state"
        THEN [calls[t] EXCEPT !.seen = @ \cup {<<ags, wus>>}]
        ELSE calls[t]]

\* a claim served by another thread
ClaimMeanwhile(agent_id, path) ==
    LET r == claim(agents, work_units, agent_id, path, "file", None) IN
    /\ MayRun
    /\ agents' = r.agents
    /\ work_units' = r.work_units
    /\ events' = r.events
    /\ last' = Op("claim", agent_id, path, r.result.success, r.result, <<>>)
    /\ calls' = Observed(r.agents, r.work_units)
    /\ UNCHANGED <<lock, delivered, server>>

\* a release served by another thread
ReleaseMeanwhile(agent_id, path) ==
    LET r == release(work_units, agent_id, path) IN
    /\ MayRun
    /\ work_units' = r.work_units
    /\ events' = r.events
    /\ last' = Op("release", agent_id, path, r.ret, NoResult, <<>>)
    /\ calls' = Observed(agents, r.work_units)
    /\ UNCHANGED <<agents, lock, delivered, server>>

\* a removal served by another thread
RemoveAgentMeanwhile(agent_id) ==
    LET r == remove_agent(agents, work_units, agent_id) IN
    /\ MayRun
    /\ agents' = r.agents
    /\ work_units' = r.work_units
    /\ events' = r.events
    /\ last' = Op("remove_agent", agent_id, "", AgentIndex(agents, agent_id) # 0,
                  NoResult, <<>>)
    /\ calls' = Observed(r.agents, r.work_units)
    /\ UNCHANGED <<lock, delivered, server>>

\* one thread serves GET /work-units/state while two agents claim and release
\* one path and are removed
NextState ==
    \/ GetState(StateReader)
    \/ ReadWorkUnit(StateReader)
    \/ ReturnState(StateReader)
    \/ \E a \in TwoAgents, p \in OnePath : ClaimMeanwhile(a, p)
    \/ \E a \in TwoAgents, p \in OnePath : ReleaseMeanwhile(a, p)
    \/ \E a \in TwoAgents : RemoveAgentMeanwhile(a)

SpecState == Init /\ [][NextState]_vars

\* C39 (SpecState): the response of GET /work-units/state shows one registry
\* state: among the states the registry was in between the call of get_state
\* and the return of the route there is one whose agents and work units are
\* those of the response.
C39_ConsistentSnapshot ==
    LET c == calls[StateReader] IN
    (c.pc = "responded" /\ c.op = "get_state") =>
        \E s \in c.seen : c.response[1] = StateResponse(s[1], s[2])

\* a response is complete that lists s1 as the only agent and s2 as the owner
\* of /p: between get_state and the read of /p, s2 claimed /p and s1 released
\* it
C39_Witness ==
    LET c == calls[StateReader] IN
    /\ c.pc = "responded"
    /\ c.op = "get_state"
    /\ AgentKeys(c.response[1].agents) = <<<<"s1">>>>
    /\ Len(c.response[1].work_units) = 1
    /\ c.response[1].work_units[1].path = "/p"
    /\ c.response[1].work_units[1].owner_agent_id = Some(<<"s2">>)
    /\ \A s \in c.seen : c.response[1] # StateResponse(s[1], s[2])

-----------------------------------------------------------------------------
(* C40: the post-tool hook releases what the pre-tool guard claimed *)

\* post_tool_telemetry.py, get_agent_id
telemetry_get_agent_id(hook_input) ==
    IF hook_input.session_id = None THEN <<"unknown">> ELSE hook_input.session_id[1]

\* post_tool_telemetry.py, get_target_path
telemetry_get_target_path(hook_input) ==
    IF hook_input.tool_name \in {"Edit", "Write"} THEN hook_input.file_path ELSE None

\* a classification that looks for "deploy" before "migrate"
telemetry_classify_deploy_first(command) ==
    IF AnyIn({"pytest", "npm test", "cargo test", "go test", "jest", "mocha"}, command)
    THEN Some("proc:test")
    ELSE IF AnyIn({"npm run build", "cargo build", "go build", "make", "webpack",
                   "vite build"}, command)
    THEN Some("proc:build")
    ELSE IF AnyIn({"deploy"}, command) THEN Some("proc:deploy")
    ELSE IF AnyIn({"migrate"}, command) THEN Some("proc:migrate")
    ELSE IF AnyIn({"npm install", "pip install", "cargo install"}, command)
    THEN Some("proc:install")
    ELSE None

\* post_tool_telemetry.py, classify_bash_command
telemetry_classify_bash_command(command) ==
    IF AnyIn({"pytest", "npm test", "cargo test", "go test", "jest", "mocha"}, command)
    THEN Some("proc:test")
    ELSE IF AnyIn({"npm run build", "cargo build", "go build", "make", "webpack",
                   "vite build"}, command)
    THEN Some("proc:build")
    ELSE IF AnyIn({"migrate"}, command) THEN Some("proc:migrate")
    ELSE IF AnyIn({"deploy"}, command) THEN Some("proc:deploy")
    ELSE IF AnyIn({"npm install", "pip install", "cargo install"}, command)
    THEN Some("proc:install")
    ELSE None

\* post_tool_telemetry.py, get_process_resource
telemetry_get_process_resource(hook_input) ==
    IF hook_input.tool_name = "Bash"
    THEN telemetry_classify_bash_command(hook_input.command)
    ELSE None

\* post_tool_telemetry.py, main, with what the daemon does with the request:
\* the resource released ("" when the hook exits without a request) and the
\* work units as the daemon leaves them
telemetry_main(wus, hook_input, daemon) ==
    LET target_path == telemetry_get_target_path(hook_input)
        process_resource == telemetry_get_process_resource(hook_input)
        agent_id == telemetry_get_agent_id(hook_input)
        resource_path == IF TruthyStr(target_path) THEN target_path[1]
                         ELSE process_resource[1]
        r == release(wus, agent_id, resource_path)
        served == daemon \in {"answers", "timeout"}
    IN
    IF ~TruthyStr(target_path) /\ ~TruthyStr(process_resource)
    THEN [work_units |-> wus, events |-> <<>>, agent_id |-> agent_id,
          resource_path |-> "", ret |-> FALSE]
    ELSE [work_units |-> IF served THEN r.work_units ELSE wus,
          events |-> IF served THEN r.events ELSE <<>>,
          agent_id |-> agent_id, resource_path |-> resource_path,
          ret |-> served /\ r.ret]

\* the tool invocations of the model: every tool kind, file_path absent, empty
\* and given, and commands that fall into no class, into one, and into two
\* neighbouring classes at once
ToolInputs ==
    [session_id : {Some(<<"s1">>)},
     tool_name : {"Edit", "Write", "Bash", "Read"},
     file_path : {None, Some(""), Some("/p")},
     command : {<<"ls">>, <<"PyTest", "make">>, <<"make", "migrate">>,
                <<"migrate", "deploy">>, <<"deploy", "pip install">>,
                <<"pip install">>}]

\* whether the daemon is up when a hook calls it
HookDaemon == {"answers", "unreachable"}

\* the process that runs the hooks of a session, one tool invocation at a time
HookRunner == "h1"

\* the tool invocations of one session
MaxInvocations == 2

\* the tool invocations so far
Invocations == IF calls[HookRunner].pc = "idle" THEN 0 ELSE calls[HookRunner].n

\* Claude Code runs the PreToolUse hook for a tool invocation; when the hook
\* allows it the tool runs, when it blocks the invocation is over
GuardTool(hook_input, daemon) ==
    LET m == main(agents, work_units, hook_input, daemon) IN
    /\ calls[HookRunner].pc \in {"idle", "blocked", "released"}
    /\ Invocations < MaxInvocations
    /\ agents' = m.agents
    /\ work_units' = m.work_units
    /\ events' = m.events
    /\ last' = Op("pre_tool_use", m.agent_id, m.resource_path, m.decision = "allow",
                  ClaimResult(FALSE, None, None, <<m.decision>>), <<>>)
    /\ calls' = [calls EXCEPT ![HookRunner] =
                    [pc |-> IF m.decision = "allow" THEN "tool" ELSE "blocked",
                     op |-> "tool", agent_id |-> m.agent_id, path |-> m.resource_path,
                     hook_input |-> hook_input, released_path |-> "",
                     n |-> Invocations + 1]]
    /\ UNCHANGED <<lock, delivered, server>>

\* after the tool Claude Code runs the PostToolUse hook with the same
\* session_id, tool_name and tool_input
PostToolUse(daemon) ==
    LET c == calls[HookRunner]
        m == telemetry_main(work_units, c.hook_input, daemon)
    IN
    /\ c.pc = "tool"
    /\ work_units' = m.work_units
    /\ events' = m.events
    /\ last' = Op("post_tool_use", m.agent_id, m.resource_path, m.ret, NoResult, <<>>)
    /\ calls' = [calls EXCEPT ![HookRunner] =
                    [c EXCEPT !.pc = "released", !.released_path = m.resource_path]]
    /\ UNCHANGED <<agents, lock, delivered, server>>

NextHooks ==
    \/ \E h \in ToolInputs, d \in HookDaemon : GuardTool(h, d)
    \/ \E d \in HookDaemon : PostToolUse(d)

SpecHooks == Init /\ [][NextHooks]_vars

\* the resource a tool invocation stands for: file_path for Edit and Write,
\* for Bash the first class that matches in the order test, build, migrate,
\* deploy, install, and none otherwise ("" here)
ResourceOf(h) ==
    LET has(kws) == \E i \in 1..Len(h.command) : Lower(h.command[i]) \in kws IN
    IF h.tool_name \in {"Edit", "Write"} /\ h.file_path \notin {None, Some("")}
    THEN h.file_path[1]
    ELSE IF h.tool_name # "Bash" THEN ""
    ELSE IF has({"pytest", "npm test", "cargo test", "go test", "jest", "mocha"})
    THEN "proc:test"
    ELSE IF has({"npm run build", "cargo build", "go build", "make", "webpack",
                 "vite build"})
    THEN "proc:build"
    ELSE IF has({"migrate"}) THEN "proc:migrate"
    ELSE IF has({"deploy"}) THEN "proc:deploy"
    ELSE IF has({"npm install", "pip install", "cargo install"}) THEN "proc:install"
    ELSE ""

\* C40 (SpecHooks): for every tool invocation the resource the pre-tool guard
\* derives is the resource of the invocation (file_path for Edit and Write;
\* for Bash the first matching class in the order proc:test, proc:build,
\* proc:migrate, proc:deploy, proc:install; else none), and when the post-tool
\* hook has run it has derived the same resource and the same agent, so its
\* release names the path the guard claimed.
C40_SameResource ==
    LET c == calls[HookRunner] IN
    /\ c.pc \in {"tool", "blocked", "released"} =>
          c.path = ResourceOf(c.hook_input)
    /\ c.pc = "released" =>
          /\ c.released_path = c.path
          /\ last.op = "post_tool_use"
          /\ last.path = c.path
          /\ last.agent_id = c.agent_id

\* a Bash command that holds both "migrate" and "deploy" has run: the guard
\* claimed proc:migrate, and the post-tool hook has released proc:migrate,
\* which is available again
C40_Witness ==
    LET c == calls[HookRunner] IN
    /\ c.pc = "released"
    /\ c.hook_input.tool_name = "Bash"
    /\ c.hook_input.command = <<"migrate", "deploy">>
    /\ c.path = "proc:migrate"
    /\ last.op = "post_tool_use"
    /\ last.path = "proc:migrate"
    /\ last.ret
    /\ Has(work_units, "proc:migrate")
    /\ OwnerOf(work_units, "proc:migrate") = None

====
